---- MODULE Spec2Model ----
(***************************************************************************)
(* A model of the semver package: the byte-level version parser, the      *)
(* precedence comparator, and the range parser / evaluator with Go's      *)
(* slice semantics for the [][]Requirement a VersionRange holds.          *)
(*                                                                         *)
(* Strings are Go strings: sequences of bytes, written here as sequences  *)
(* of integers.  Indices in the parser operators are the 0-based indices  *)
(* of the Go code; At(s, i) reads byte i.                                  *)
(***************************************************************************)
EXTENDS Integers, Sequences, FiniteSets, TLC

VARIABLES
    pc,             \* position of the driving program
    DefaultParser,  \* the package-level parser built by init()
    parser,         \* a parser built by NewParser(options...), or NoParser
    input,          \* the version strings handed to Parse
    out,            \* what the Parse calls returned: [v, err]
    rt,             \* what Parse(out.v.String()) returned
    cmp,            \* results of the Compare calls
    heap,           \* backing arrays of all slices of Requirement / of groups
    ranges,         \* the VersionRange objects allocated so far
    last,           \* the last range operation and what it returned
    goroutines      \* the goroutines started on a shared range

vars == <<pc, DefaultParser, parser, input, out, rt, cmp, heap, ranges, last, goroutines>>

----------------------------------------------------------------------------
(* Bytes and byte strings *)

\* The byte value of the characters the inputs are written with.
Byte ==
    ("0" :> 48) @@ ("1" :> 49) @@ ("2" :> 50) @@ ("3" :> 51) @@ ("5" :> 53) @@
    ("9" :> 57) @@ ("A" :> 65) @@ ("Z" :> 90) @@ ("a" :> 97) @@ ("b" :> 98) @@
    ("v" :> 118) @@ ("z" :> 122) @@ ("-" :> 45) @@ ("." :> 46) @@ ("+" :> 43) @@
    ("!" :> 33) @@ ("_" :> 95) @@ ("$" :> 36) @@ (" " :> 32) @@ ("\t" :> 9) @@
    ("=" :> 61) @@ (">" :> 62) @@ ("<" :> 60) @@ ("|" :> 124) @@ ("xC3" :> 195) @@
    ("e" :> 101) @@ ("l" :> 108) @@ ("p" :> 112) @@ ("r" :> 114) @@ ("s" :> 115) @@
    ("c" :> 99) @@ ("h" :> 104) @@ ("t" :> 116) @@ ("d" :> 100) @@ ("i" :> 105) @@
    ("u" :> 117) @@ ("n" :> 110)

\* F(e): the value e bound to the name F gives it, as := binds a result.
Bind(e, F(_)) == CHOOSE r \in {F(x) : x \in {e}} : TRUE

\* The Go string written with the characters cs.
B(cs) == [i \in 1..Len(cs) |-> Byte[cs[i]]]

\* s[i] of Go, i counted from 0.
At(s, i) == s[i + 1]

\* s[from:to] of Go.
Slice(s, from, to) == SubSeq(s, from + 1, to)

RECURSIVE Join(_, _)
\* strings.Join / the separator loops of Version.String.
Join(parts, sep) ==
    IF Len(parts) = 0 THEN <<>>
    ELSE IF Len(parts) = 1 THEN parts[1]
    ELSE parts[1] \o sep \o Join(Tail(parts), sep)

RECURSIVE StringsCompare(_, _)
\* strings.Compare: byte-wise lexicographic order, -1, 0 or +1.
StringsCompare(a, b) ==
    IF Len(a) = 0 /\ Len(b) = 0 THEN 0
    ELSE IF Len(a) = 0 THEN -1
    ELSE IF Len(b) = 0 THEN 1
    ELSE IF a[1] < b[1] THEN -1
    ELSE IF a[1] > b[1] THEN 1
    ELSE StringsCompare(Tail(a), Tail(b))

RECURSIVE FormatUint(_)
\* strconv.FormatUint(n, 10): the decimal digits of n, no leading zero.
FormatUint(n) ==
    IF n < 10 THEN <<Byte["0"] + n>>
    ELSE FormatUint(n \div 10) \o <<Byte["0"] + (n % 10)>>

RECURSIVE DecimalValue(_, _)
\* The number the digit bytes of s denote in base ten, continuing from n.
DecimalValue(s, n) ==
    IF Len(s) = 0 THEN n
    ELSE DecimalValue(Tail(s), n * 10 + (s[1] - Byte["0"]))

\* A uint64 is held as four 16-bit limbs, the lowest first, so that its
\* arithmetic is exact modulo 2^64; a fifth element is 1 when a carry out of
\* the 64 bits has been dropped on the way to it.
Limb == 65536
ZeroUint64 == <<0, 0, 0, 0, 0>>

\* The carry out of limb k, and so out of the limbs below it, in n*10 + d.
CarryOut(n, d, k) ==
    CASE k = 0 -> d
      [] k = 1 -> (n[1] * 10 + d) \div Limb
      [] k = 2 -> (n[2] * 10 + ((n[1] * 10 + d) \div Limb)) \div Limb
      [] k = 3 -> (n[3] * 10 + ((n[2] * 10 + ((n[1] * 10 + d) \div Limb)) \div Limb))
                  \div Limb
      [] k = 4 -> (n[4] * 10 + ((n[3] * 10 + ((n[2] * 10 + ((n[1] * 10 + d) \div Limb))
                  \div Limb)) \div Limb)) \div Limb

\* n*10 + d on a uint64: the 64 bits that are kept, the carry out of them
\* dropped.
MulAdd10(n, d) ==
    [k \in 1..5 |->
        IF k <= 4 THEN (n[k] * 10 + CarryOut(n, d, k - 1)) % Limb
        ELSE IF n[5] = 1 \/ CarryOut(n, d, 4) > 0 THEN 1 ELSE 0]

RECURSIVE Accumulate(_, _)
\* The loop n = n*10 + uint64(digit) over the digit bytes of s, from n: each
\* step is taken modulo 2^64.
Accumulate(s, n) ==
    IF Len(s) = 0 THEN n
    ELSE Accumulate(Tail(s), MulAdd10(n, s[1] - Byte["0"]))

\* The digit bytes of s, continuing from n, denote a number above 2^64-1:
\* some step of the accumulation carries out of the 64 bits.
OutOfRange(s, n) == Accumulate(s, n)[5] = 1

\* The integer a uint64 holds.
Uint64ToInt(n) == n[1] + Limb * (n[2] + Limb * (n[3] + Limb * n[4]))

----------------------------------------------------------------------------
(* Errors *)

NoError == "nil"
ErrEmptyVersionString == "ErrEmptyVersionString"
ErrMissingVersionElements == "ErrMissingVersionElements"
ErrInvalidNumericIdentifier == "ErrInvalidNumericIdentifier"
ErrLeadingZeroInNumericIdentifier == "ErrLeadingZeroInNumericIdentifier"
ErrInvalidCharacterInIdentifier == "ErrInvalidCharacterInIdentifier"
ErrInvalidPrereleaseIdentifier == "ErrInvalidPrereleaseIdentifier"
ErrEmptyPrereleaseIdentifier == "ErrEmptyPrereleaseIdentifier"
ErrEmptyBuildMetadata == "ErrEmptyBuildMetadata"
ErrInvalidBuildMetadataIdentifier == "ErrInvalidBuildMetadataIdentifier"
ErrUnexpectedCharacter == "ErrUnexpectedCharacter"
ErrUnexpectedEndOfInput == "ErrUnexpectedEndOfInput"
\* The errors NewPrereleaseVersion builds with errors.New / fmt.Errorf.
ErrEmptyPrerelease == "prerelease is empty"
ErrLeadingZeroInNumeric == "numeric prerelease version must not contain leading zeroes"
ErrInvalidPrereleaseChars == "invalid character(s) found in prerelease"
\* The error of strconv.ParseUint for a number that does not fit in 64 bits.
ErrRange == "strconv.ParseUint: value out of range"

----------------------------------------------------------------------------
(* PrereleaseVersion *)

\* The zero PrereleaseVersion{}.
ZeroPrerelease == [partString |-> <<>>, partNumeric |-> 0, isNumeric |-> FALSE]

containsOnlyNumbers(s) ==
    \A i \in 1..Len(s) : ~(s[i] < Byte["0"] \/ s[i] > Byte["9"])

containsOnlyAlphanumeric(s) ==
    \A i \in 1..Len(s) :
        \/ (s[i] >= Byte["0"] /\ s[i] <= Byte["9"])
        \/ (s[i] >= Byte["A"] /\ s[i] <= Byte["Z"])
        \/ (s[i] >= Byte["a"] /\ s[i] <= Byte["z"])

\* NewPrereleaseVersion(s): [pr, err].
NewPrereleaseVersion(s) ==
    IF Len(s) = 0 THEN [pr |-> ZeroPrerelease, err |-> ErrEmptyPrerelease]
    ELSE IF containsOnlyNumbers(s) THEN
        IF Len(s) > 1 /\ s[1] = Byte["0"]
        THEN [pr |-> ZeroPrerelease, err |-> ErrLeadingZeroInNumeric]
        ELSE Bind(Accumulate(s, ZeroUint64), LAMBDA number :
            IF number[5] = 1 THEN [pr |-> ZeroPrerelease, err |-> ErrRange]
            ELSE [pr |-> [partString |-> <<>>, partNumeric |-> Uint64ToInt(number),
                          isNumeric |-> TRUE],
                  err |-> NoError])
    ELSE IF containsOnlyAlphanumeric(s) THEN
        [pr |-> [partString |-> s, partNumeric |-> 0, isNumeric |-> FALSE],
         err |-> NoError]
    ELSE [pr |-> ZeroPrerelease, err |-> ErrInvalidPrereleaseChars]

\* PrereleaseVersion.Compare with a numeric identifier taken as lower than
\* a textual one whichever side it is on.
PrereleaseCompareReceiverLower(v, o) ==
    IF v.isNumeric # o.isNumeric THEN -1
    ELSE IF v.isNumeric THEN
        IF v.partNumeric < o.partNumeric THEN -1
        ELSE IF v.partNumeric > o.partNumeric THEN 1
        ELSE 0
    ELSE StringsCompare(v.partString, o.partString)

\* PrereleaseVersion.Compare with two numeric identifiers compared as their
\* decimal texts, byte by byte.
PrereleaseCompareDigitsAsText(v, o) ==
    IF v.isNumeric # o.isNumeric THEN (IF v.isNumeric THEN -1 ELSE 1)
    ELSE IF v.isNumeric THEN
        StringsCompare(FormatUint(v.partNumeric), FormatUint(o.partNumeric))
    ELSE StringsCompare(v.partString, o.partString)

\* PrereleaseVersion.Compare
PrereleaseCompare(v, o) ==
    IF v.isNumeric # o.isNumeric THEN (IF v.isNumeric THEN -1 ELSE 1)
    ELSE IF v.isNumeric THEN
        IF v.partNumeric < o.partNumeric THEN -1
        ELSE IF v.partNumeric > o.partNumeric THEN 1
        ELSE 0
    ELSE StringsCompare(v.partString, o.partString)

\* PrereleaseVersion.String
PrereleaseString(v) ==
    IF v.isNumeric THEN FormatUint(v.partNumeric) ELSE v.partString

----------------------------------------------------------------------------
(* Version and the parser *)

\* The zero Version{}; a nil slice is the empty sequence.
ZeroVersion ==
    [Major |-> 0, Minor |-> 0, Patch |-> 0, PreRelease |-> <<>>, BuildMetadata |-> <<>>]

\* parser.isAllowedInIdentifier allowing every ASCII byte but '.' and '+'.
isAllowedInIdentifierAnyASCII(ch) ==
    ch <= 127 /\ ch # Byte["."] /\ ch # Byte["+"]

\* parser.isAllowedInIdentifier
isAllowedInIdentifier(ch) ==
    \/ (ch >= Byte["0"] /\ ch <= Byte["9"])
    \/ (ch >= Byte["A"] /\ ch <= Byte["Z"])
    \/ (ch >= Byte["a"] /\ ch <= Byte["z"])
    \/ ch = Byte["-"]

\* isNumeric
isNumeric(s) == \A i \in 1..Len(s) : ~(s[i] < Byte["0"] \/ s[i] > Byte["9"])

\* parser.isValidPrereleaseIdentifier, strict = p.config.StrictAdherence()
isValidPrereleaseIdentifier(strict, s) ==
    IF Len(s) = 0 THEN FALSE
    ELSE IF \E i \in 1..Len(s) : ~isAllowedInIdentifier(s[i]) THEN FALSE
    ELSE IF strict /\ isNumeric(s) /\ s[1] = Byte["0"] /\ Len(s) > 1 THEN FALSE
    ELSE TRUE

\* parser.isValidBuildIdentifier
isValidBuildIdentifier(s) ==
    IF Len(s) = 0 THEN FALSE
    ELSE IF \E i \in 1..Len(s) : ~isAllowedInIdentifier(s[i]) THEN FALSE
    ELSE TRUE

RECURSIVE DigitsEnd(_, _, _)
\* The index where the loop "for index < length && version[index] is a digit"
\* of parseNumericIdentifier stops.
DigitsEnd(version, index, length) ==
    IF index < length /\ At(version, index) >= Byte["0"] /\ At(version, index) <= Byte["9"]
    THEN DigitsEnd(version, index + 1, length)
    ELSE index

\* parser.parseNumericIdentifier: [n, index, err].  The strict flag is a
\* parameter because the method has the parser as receiver; the code never
\* reads it here.
parseNumericIdentifier(strict, version, index, length) ==
    IF index >= length THEN [n |-> 0, index |-> index, err |-> ErrUnexpectedEndOfInput]
    ELSE IF At(version, index) = Byte["0"] THEN
        IF index + 1 < length /\ At(version, index + 1) >= Byte["0"]
                              /\ At(version, index + 1) <= Byte["9"]
        THEN [n |-> 0, index |-> index + 1, err |-> ErrLeadingZeroInNumericIdentifier]
        ELSE [n |-> 0, index |-> index + 1, err |-> NoError]
    ELSE
        LET end == DigitsEnd(version, index, length) IN
        IF index = end
        THEN [n |-> 0, index |-> end, err |-> ErrInvalidNumericIdentifier]
        ELSE [n |-> Uint64ToInt(Accumulate(Slice(version, index, end), ZeroUint64)),
              index |-> end, err |-> NoError]

RECURSIVE parsePrereleaseLoop(_, _, _, _, _)
\* The loop of parser.parsePrerelease from position i, with the start of
\* the current part and the identifiers appended so far: [pre, err].
parsePrereleaseLoop(strict, s, i, start, prerelease) ==
    IF i > Len(s) THEN [pre |-> prerelease, err |-> NoError]
    ELSE IF i = Len(s) \/ At(s, i) = Byte["."] THEN
        IF start = i THEN [pre |-> <<>>, err |-> ErrEmptyPrereleaseIdentifier]
        ELSE
            LET part == Slice(s, start, i) IN
            IF ~isValidPrereleaseIdentifier(strict, part)
            THEN [pre |-> <<>>, err |-> ErrInvalidPrereleaseIdentifier]
            ELSE
                LET c == NewPrereleaseVersion(part) IN
                IF c.err # NoError THEN [pre |-> <<>>, err |-> c.err]
                ELSE parsePrereleaseLoop(strict, s, i + 1, i + 1, Append(prerelease, c.pr))
    ELSE IF At(s, i) > 127 \/ ~isAllowedInIdentifier(At(s, i))
    THEN [pre |-> <<>>, err |-> ErrInvalidCharacterInIdentifier]
    ELSE parsePrereleaseLoop(strict, s, i + 1, start, prerelease)

\* parser.parsePrerelease: [pre, err]
parsePrerelease(strict, s) ==
    IF Len(s) = 0 THEN [pre |-> <<>>, err |-> ErrEmptyPrereleaseIdentifier]
    ELSE parsePrereleaseLoop(strict, s, 0, 0, <<>>)

RECURSIVE parseBuildMetadataLoop(_, _, _, _)
\* The loop of parser.parseBuildMetadata: [build, err].
parseBuildMetadataLoop(s, i, start, buildMetadata) ==
    IF i > Len(s) THEN [build |-> buildMetadata, err |-> NoError]
    ELSE IF i = Len(s) \/ At(s, i) = Byte["."] THEN
        IF start = i THEN [build |-> <<>>, err |-> ErrEmptyBuildMetadata]
        ELSE
            LET part == Slice(s, start, i) IN
            IF ~isValidBuildIdentifier(part)
            THEN [build |-> <<>>, err |-> ErrInvalidBuildMetadataIdentifier]
            ELSE parseBuildMetadataLoop(s, i + 1, i + 1, Append(buildMetadata, part))
    ELSE IF At(s, i) > 127 \/ ~isAllowedInIdentifier(At(s, i))
    THEN [build |-> <<>>, err |-> ErrInvalidCharacterInIdentifier]
    ELSE parseBuildMetadataLoop(s, i + 1, start, buildMetadata)

\* parser.parseBuildMetadata: [build, err]
parseBuildMetadata(s) ==
    IF Len(s) = 0 THEN [build |-> <<>>, err |-> ErrEmptyBuildMetadata]
    ELSE parseBuildMetadataLoop(s, 0, 0, <<>>)

RECURSIVE PrereleaseScan(_, _, _)
\* The scan of parsePreReleaseAndBuildMetadata over the pre-release segment:
\* up to the first '+' or the end, failing on a byte above 127: [index, err].
PrereleaseScan(version, index, length) ==
    IF index < length /\ At(version, index) # Byte["+"] THEN
        IF At(version, index) > 127
        THEN [index |-> index, err |-> ErrInvalidCharacterInIdentifier]
        ELSE PrereleaseScan(version, index + 1, length)
    ELSE [index |-> index, err |-> NoError]

\* parser.parsePreReleaseAndBuildMetadata on the Version v it was handed a
\* pointer to: [index, err, v], v being *v when it returns.
parsePreReleaseAndBuildMetadata(strict, version, index, length, v) ==
    LET hasPre == index < length /\ At(version, index) = Byte["-"]
        scan == PrereleaseScan(version, index + 1, length)
        pre == parsePrerelease(strict, Slice(version, index + 1, scan.index))
    IN
    IF hasPre /\ scan.err # NoError THEN [index |-> scan.index, err |-> scan.err, v |-> v]
    ELSE IF hasPre /\ pre.err # NoError
    THEN [index |-> scan.index, err |-> pre.err, v |-> [v EXCEPT !.PreRelease = pre.pre]]
    ELSE
        LET index2 == IF hasPre THEN scan.index ELSE index
            v2 == IF hasPre THEN [v EXCEPT !.PreRelease = pre.pre] ELSE v
        IN
        IF index2 < length /\ At(version, index2) = Byte["+"] THEN
            LET build == parseBuildMetadata(Slice(version, index2 + 1, length)) IN
            IF build.err # NoError
            THEN [index |-> index2 + 1, err |-> build.err,
                  v |-> [v2 EXCEPT !.BuildMetadata = build.build]]
            ELSE [index |-> length, err |-> NoError,
                  v |-> [v2 EXCEPT !.BuildMetadata = build.build]]
        ELSE [index |-> index2, err |-> NoError, v |-> v2]

\* parser.Parse returning the Version as far as it was filled in when the
\* pre-release or build metadata part fails.
ParserParseKeepsPartial(strict, version) ==
    LET length == Len(version)
        major == parseNumericIdentifier(strict, version, 0, length)
        minor == parseNumericIdentifier(strict, version, major.index + 1, length)
        patch == parseNumericIdentifier(strict, version, minor.index + 1, length)
        fail(e) == [v |-> ZeroVersion, err |-> e]
    IN
    IF Len(version) = 0 THEN fail(ErrEmptyVersionString)
    ELSE IF major.err # NoError THEN fail(major.err)
    ELSE IF major.index >= length \/ At(version, major.index) # Byte["."]
    THEN fail(ErrMissingVersionElements)
    ELSE IF minor.err # NoError THEN fail(minor.err)
    ELSE IF minor.index >= length \/ At(version, minor.index) # Byte["."]
    THEN fail(ErrMissingVersionElements)
    ELSE IF patch.err # NoError THEN fail(patch.err)
    ELSE
        LET v == [ZeroVersion EXCEPT !.Major = major.n, !.Minor = minor.n,
                                     !.Patch = patch.n]
            tail == IF patch.index < length
                    THEN parsePreReleaseAndBuildMetadata(strict, version, patch.index,
                                                         length, v)
                    ELSE [index |-> patch.index, err |-> NoError, v |-> v]
        IN
        IF tail.err # NoError THEN [v |-> tail.v, err |-> tail.err]
        ELSE IF tail.index # length THEN fail(ErrUnexpectedCharacter)
        ELSE [v |-> tail.v, err |-> NoError]

\* parser.Parse: [v, err]
ParserParse(strict, version) ==
    LET length == Len(version)
        major == parseNumericIdentifier(strict, version, 0, length)
        minor == parseNumericIdentifier(strict, version, major.index + 1, length)
        patch == parseNumericIdentifier(strict, version, minor.index + 1, length)
        fail(e) == [v |-> ZeroVersion, err |-> e]
    IN
    IF Len(version) = 0 THEN fail(ErrEmptyVersionString)
    ELSE IF major.err # NoError THEN fail(major.err)
    ELSE IF major.index >= length \/ At(version, major.index) # Byte["."]
    THEN fail(ErrMissingVersionElements)
    ELSE IF minor.err # NoError THEN fail(minor.err)
    ELSE IF minor.index >= length \/ At(version, minor.index) # Byte["."]
    THEN fail(ErrMissingVersionElements)
    ELSE IF patch.err # NoError THEN fail(patch.err)
    ELSE
        LET v == [ZeroVersion EXCEPT !.Major = major.n, !.Minor = minor.n,
                                     !.Patch = patch.n]
            tail == IF patch.index < length
                    THEN parsePreReleaseAndBuildMetadata(strict, version, patch.index,
                                                         length, v)
                    ELSE [index |-> patch.index, err |-> NoError, v |-> v]
        IN
        IF tail.err # NoError THEN fail(tail.err)
        ELSE IF tail.index # length THEN fail(ErrUnexpectedCharacter)
        ELSE [v |-> tail.v, err |-> NoError]

\* Version.String without the build metadata.
StringWithoutBuildMetadata(v) ==
    FormatUint(v.Major) \o <<Byte["."]>> \o FormatUint(v.Minor) \o <<Byte["."]>>
        \o FormatUint(v.Patch)
        \o (IF Len(v.PreRelease) > 0
            THEN <<Byte["-"]>> \o Join([i \in 1..Len(v.PreRelease) |->
                                           PrereleaseString(v.PreRelease[i])],
                                       <<Byte["."]>>)
            ELSE <<>>)

\* Version.String
String(v) ==
    FormatUint(v.Major) \o <<Byte["."]>> \o FormatUint(v.Minor) \o <<Byte["."]>>
        \o FormatUint(v.Patch)
        \o (IF Len(v.PreRelease) > 0
            THEN <<Byte["-"]>> \o Join([i \in 1..Len(v.PreRelease) |->
                                           PrereleaseString(v.PreRelease[i])],
                                       <<Byte["."]>>)
            ELSE <<>>)
        \o (IF Len(v.BuildMetadata) > 0
            THEN <<Byte["+"]>> \o Join(v.BuildMetadata, <<Byte["."]>>)
            ELSE <<>>)

RECURSIVE ComparePrereleaseFrom(_, _, _, _)
\* The identifier loop of Version.Compare from index i (1-based here) up to
\* length: the first non-zero PrereleaseVersion.Compare, or 0.
ComparePrereleaseFrom(a, b, i, length) ==
    IF i > length THEN 0
    ELSE LET c == PrereleaseCompare(a[i], b[i]) IN
         IF c # 0 THEN c ELSE ComparePrereleaseFrom(a, b, i + 1, length)

\* Version.Compare, the major / minor / patch part: the first difference.
CompareCore(v, other) ==
    IF v.Major # other.Major THEN (IF v.Major > other.Major THEN 1 ELSE -1)
    ELSE IF v.Minor # other.Minor THEN (IF v.Minor > other.Minor THEN 1 ELSE -1)
    ELSE IF v.Patch # other.Patch THEN (IF v.Patch > other.Patch THEN 1 ELSE -1)
    ELSE 0

\* The comparison of two identifier lists with the shorter one taken as the
\* greater when all compared identifiers are equal.
ComparePrereleaseListsShorterGreater(v, other) ==
    LET length == IF Len(other.PreRelease) < Len(v.PreRelease)
                  THEN Len(other.PreRelease) ELSE Len(v.PreRelease)
        c == ComparePrereleaseFrom(v.PreRelease, other.PreRelease, 1, length)
    IN
    IF c # 0 THEN c
    ELSE IF Len(v.PreRelease) < Len(other.PreRelease) THEN 1
    ELSE IF Len(v.PreRelease) > Len(other.PreRelease) THEN -1
    ELSE 0

\* Version.Compare when both versions have pre-release identifiers: the
\* first identifier that differs, then the number of identifiers.
ComparePrereleaseLists(v, other) ==
    LET length == IF Len(other.PreRelease) < Len(v.PreRelease)
                  THEN Len(other.PreRelease) ELSE Len(v.PreRelease)
        c == ComparePrereleaseFrom(v.PreRelease, other.PreRelease, 1, length)
    IN
    IF c # 0 THEN c
    ELSE IF Len(v.PreRelease) < Len(other.PreRelease) THEN -1
    ELSE IF Len(v.PreRelease) > Len(other.PreRelease) THEN 1
    ELSE 0

\* The pre-release part with the version that has no identifiers taken as
\* the lower one.
ComparePrereleaseAbsentLower(v, other) ==
    IF Len(v.PreRelease) = 0 /\ Len(other.PreRelease) = 0 THEN 0
    ELSE IF Len(v.PreRelease) = 0 /\ Len(other.PreRelease) > 0 THEN -1
    ELSE IF Len(v.PreRelease) > 0 /\ Len(other.PreRelease) = 0 THEN 1
    ELSE ComparePrereleaseLists(v, other)

\* Version.Compare, the pre-release part, reached when major, minor and
\* patch are equal.
ComparePrerelease(v, other) ==
    IF Len(v.PreRelease) = 0 /\ Len(other.PreRelease) = 0 THEN 0
    ELSE IF Len(v.PreRelease) = 0 /\ Len(other.PreRelease) > 0 THEN 1
    ELSE IF Len(v.PreRelease) > 0 /\ Len(other.PreRelease) = 0 THEN -1
    ELSE ComparePrereleaseLists(v, other)

\* Version.Compare with the build metadata as a last tie-break.
CompareWithBuildMetadata(v, other) ==
    IF CompareCore(v, other) # 0 THEN CompareCore(v, other)
    ELSE IF ComparePrerelease(v, other) # 0 THEN ComparePrerelease(v, other)
    ELSE IF Len(v.BuildMetadata) < Len(other.BuildMetadata) THEN -1
    ELSE IF Len(v.BuildMetadata) > Len(other.BuildMetadata) THEN 1
    ELSE 0

\* Version.Compare
Compare(v, other) ==
    IF CompareCore(v, other) # 0 THEN CompareCore(v, other)
    ELSE ComparePrerelease(v, other)

\* Version.Equal, LessThan, LessThanOrEqual, GreaterThan, GreaterThanOrEqual
Equal(v, other) == Compare(v, other) = 0
LessThan(v, other) == Compare(v, other) = -1
LessThanOrEqual(v, other) == Compare(v, other) <= 0
GreaterThan(v, other) == Compare(v, other) = 1
GreaterThanOrEqual(v, other) == Compare(v, other) >= 0

----------------------------------------------------------------------------
(* Requirement *)

OpEq == "="
OpGt == ">"
OpGte == ">="
OpLt == "<"
OpLte == "<="
OpNeq == "!="

\* The bytes of an operator.
OperatorText ==
    (OpGte :> B(<<">", "=">>)) @@ (OpLte :> B(<<"<", "=">>)) @@ (OpGt :> B(<<">">>)) @@
    (OpLt :> B(<<"<">>)) @@ (OpEq :> B(<<"=">>)) @@ (OpNeq :> B(<<"!", "=">>))

\* The zero Requirement{}, what an array cell holds before it is written.
ZeroRequirement == [Op |-> "", Ver |-> ZeroVersion]

\* Requirement.Contains with ">" answering as ">=" does.
ReqContainsGtAsGte(r, v) ==
    CASE r.Op = OpEq -> Equal(v, r.Ver)
      [] r.Op = OpGt -> GreaterThanOrEqual(v, r.Ver)
      [] r.Op = OpGte -> GreaterThanOrEqual(v, r.Ver)
      [] r.Op = OpLt -> LessThan(v, r.Ver)
      [] r.Op = OpLte -> LessThanOrEqual(v, r.Ver)
      [] r.Op = OpNeq -> ~Equal(v, r.Ver)
      [] OTHER -> FALSE

\* Requirement.Contains
ReqContains(r, v) ==
    CASE r.Op = OpEq -> Equal(v, r.Ver)
      [] r.Op = OpGt -> GreaterThan(v, r.Ver)
      [] r.Op = OpGte -> GreaterThanOrEqual(v, r.Ver)
      [] r.Op = OpLt -> LessThan(v, r.Ver)
      [] r.Op = OpLte -> LessThanOrEqual(v, r.Ver)
      [] r.Op = OpNeq -> ~Equal(v, r.Ver)
      [] OTHER -> FALSE

\* The operators of a Requirement.
Operators == {OpEq, OpGt, OpGte, OpLt, OpLte, OpNeq}

----------------------------------------------------------------------------
(* Configuration and NewParser *)

NoParser == "none"
None == "none"
\* The record of the last call before any call is made.
NoCall == [op |-> "none"]

\* WithStrictAdherence(value): the Option, as the assignment it makes.
WithStrictAdherence(value) == [field |-> "Strict", value |-> value]

RECURSIVE ApplyOptions(_, _)
\* The loop "for _, opt := range options { opt(configOpts) }" of NewParser.
ApplyOptions(options, configOpts) ==
    IF Len(options) = 0 THEN configOpts
    ELSE ApplyOptions(Tail(options), [configOpts EXCEPT !.Strict = options[1].value])

\* buildRuntimeConfig
buildRuntimeConfig(opts) == [strict |-> opts.Strict]

\* NewParser(options...): the parser; its error is always nil.
NewParser(options) ==
    [config |-> buildRuntimeConfig(ApplyOptions(options, [Strict |-> TRUE]))]

\* runtimeConfig.StrictAdherence
StrictAdherence(p) == p.config.strict

\* The package-level Parse: DefaultParser.Parse(version).
Parse(dp, version) == ParserParse(StrictAdherence(dp), version)

----------------------------------------------------------------------------
(* Inputs *)

\* Longest digit run of major, minor, patch in the generated inputs.
MaxDigits == 2
\* Longest pre-release identifier in the generated inputs.
MaxIdLen == 2
\* Most pre-release identifiers of the versions that are compared.
MaxPre == 2

\* All byte strings over chars, at most n long.
Strings(chars, n) == UNION {[1..k -> chars] : k \in 0..n}

Dot == <<Byte["."]>>
Dash == <<Byte["-"]>>
Plus == <<Byte["+"]>>

DigitRuns == Strings({Byte["0"], Byte["1"]}, MaxDigits)
Ids == Strings({Byte["0"], Byte["1"], Byte["a"], Byte["-"]}, MaxIdLen)
SecondIds == {<<>>, B(<<"1">>), B(<<"a">>), B(<<"0", "1">>)}

V100 == B(<<"1", ".", "0", ".", "0">>)

\* major.minor.patch from every combination of digit runs (empty ones and
\* ones with leading zeros included), alone or with a short tail.
CoreInputs ==
    {d1 \o Dot \o d2 \o Dot \o d3 \o t :
        d1 \in DigitRuns, d2 \in DigitRuns, d3 \in DigitRuns,
        t \in {<<>>, B(<<"-", "a">>), B(<<"+", "b">>)}}

PreSegments ==
    {<<>>} \cup {Dash \o id : id \in Ids}
           \cup {Dash \o id \o Dot \o id2 : id \in Ids, id2 \in SecondIds}

BuildTails ==
    {<<>>, B(<<"+">>), B(<<"+", "b">>), B(<<"+", "0", ".", "0", "1">>),
     B(<<"+", "b", "+", "1">>), B(<<"+", "b", ".", "!">>), B(<<"+", "b", ".">>)}

\* 1.0.0 followed by every pre-release segment and build tail.
TailInputs == {V100 \o p \o b : p \in PreSegments, b \in BuildTails}

\* Inputs of the tests and of the documentation.
NamedInputs ==
    {<<>>,
     B(<<"1", ".", "0">>),
     B(<<"v", "1", ".", "0", ".", "0">>),
     B(<<"1", ".", "0", ".">>),
     B(<<"1", ".", "0", ".", "0", "-", "a", "l", "p", "a", ".", ".", "1">>),
     B(<<"1", ".", "0", ".", "0", "-", "b", "e", "_", "$">>),
     B(<<"1", ".", "0", ".", "0", "-", "xC3">>),
     B(<<"1", ".", "0", ".", "0", "-", "a", ".", "!">>),
     B(<<"1", ".", "0", ".", "0", "+", "b", "xC3">>),
     B(<<"1", ".", "0", ".", "0", "a">>),
     B(<<"1", ".", "0", ".", "0", ".", "0">>),
     B(<<"1", ".", "2", ".", "3", "-", "p", "r", "e", "-", "r", "e", "l", "e", "a", "s", "e">>),
     B(<<"1", ".", "2", ".", "3", "-", "a", "l", "p", "a", ".", "1", "+", "b", ".", "1", "2", "3">>),
     B(<<"9", ".", "1", ".", "2", "-", "b", "e", "-", "s", "l", "a", "b">>)}

\* The invalid versions of TestParseInvalidVersions.
InvalidVersions ==
    {B(<<"1", ".", "0">>),
     B(<<"v", "1", ".", "0", ".", "0">>),
     B(<<"1", ".", "0", ".", "0", "-", "a", "l", "p", "h", "a", ".", ".", "1">>),
     B(<<"1", ".", "0", ".", "0", "+", "b", "u", "i", "l", "d", "+", "1", "2", "3">>),
     B(<<"1", ".", "0", ".", "0", "-", "0", "1">>),
     B(<<"1", ".", "0", ".", "0", "-">>),
     B(<<"1", ".", "0", ".", "0", "+", "b", "u", "i", "l", "d", ".", "!">>),
     B(<<"1", ".", "0", ".", "0", "-", "b", "e", "t", "a", "_", "$">>),
     B(<<"1", ".", ".", "0", ".", "0">>)}

\* The bytes of the decimal digits ds.
Digits(ds) == [i \in 1..Len(ds) |-> Byte["0"] + ds[i]]

\* 2^64, 2^64 + 1 and 2^64 + 10 written in base ten, and 65536.
TwoTo64 == Digits(<<1, 8, 4, 4, 6, 7, 4, 4, 0, 7, 3, 7, 0, 9, 5, 5, 1, 6, 1, 6>>)
TwoTo64Plus1 == Digits(<<1, 8, 4, 4, 6, 7, 4, 4, 0, 7, 3, 7, 0, 9, 5, 5, 1, 6, 1, 7>>)
TwoTo64Plus10 == Digits(<<1, 8, 4, 4, 6, 7, 4, 4, 0, 7, 3, 7, 0, 9, 5, 5, 1, 6, 2, 6>>)
TwoTo16 == Digits(<<6, 5, 5, 3, 6>>)

\* Versions with a digit run of twenty digits, and with one of five.
LongRunInputs ==
    {TwoTo64 \o B(<<".", "0", ".", "0">>),
     TwoTo64Plus1 \o B(<<".", "0", ".", "0">>),
     B(<<"1", ".">>) \o TwoTo64Plus1 \o B(<<".", "0">>),
     B(<<"1", ".", "0", ".">>) \o TwoTo64Plus10,
     B(<<"1", ".", "0", ".", "0", "-">>) \o TwoTo64Plus1,
     TwoTo16 \o B(<<".", "1", ".">>) \o TwoTo16,
     B(<<"1", ".", "0", ".", "0", "-">>) \o TwoTo16}

ParseInputs ==
    CoreInputs \cup TailInputs \cup NamedInputs \cup InvalidVersions \cup LongRunInputs

----------------------------------------------------------------------------
(* The parsing program: build a parser or not, parse the input with the    *)
(* package-level Parse or with the parser built, then parse the rendering  *)
(* of the Version that came back.                                          *)

\* init(): DefaultParser, err = NewParser()
InitDefaultParser == NewParser(<<>>)

ParseInit ==
    /\ pc = "start"
    /\ DefaultParser = InitDefaultParser
    /\ parser = NoParser
    /\ input \in {<<s>> : s \in ParseInputs}
    /\ out = <<>>
    /\ rt = None
    /\ cmp = None
    /\ heap = None
    /\ ranges = <<>>
    /\ last = NoCall
    /\ goroutines = <<>>

\* p, err := NewParser() or NewParser(WithStrictAdherence(value))
NewParserCall ==
    /\ pc = "start"
    /\ \E options \in {<<>>} \cup {<<WithStrictAdherence(b)>> : b \in BOOLEAN} :
          parser' = NewParser(options)
    /\ pc' = "built"
    /\ UNCHANGED <<DefaultParser, input, out, rt, cmp, heap, ranges, last, goroutines>>

\* v, err := Parse(input)
ParseCall ==
    /\ pc \in {"start", "built"}
    /\ out' = <<Parse(DefaultParser, input[1])>>
    /\ last' = [op |-> "Parse"]
    /\ pc' = "parsed"
    /\ UNCHANGED <<DefaultParser, parser, input, rt, cmp, heap, ranges, goroutines>>

\* v, err := p.Parse(input)
ParserParseCall ==
    /\ pc = "built"
    /\ out' = <<ParserParse(StrictAdherence(parser), input[1])>>
    /\ last' = [op |-> "parser.Parse"]
    /\ pc' = "parsed"
    /\ UNCHANGED <<DefaultParser, parser, input, rt, cmp, heap, ranges, goroutines>>

\* w, err := Parse(v.String()) for the v of a successful parse
RoundTripCall ==
    /\ pc = "parsed"
    /\ out[1].err = NoError
    /\ rt' = Parse(DefaultParser, String(out[1].v))
    /\ pc' = "done"
    /\ UNCHANGED <<DefaultParser, parser, input, out, cmp, heap, ranges, last, goroutines>>

ParseNext == NewParserCall \/ ParseCall \/ ParserParseCall \/ RoundTripCall

ParseSpec == ParseInit /\ [][ParseNext]_vars

\* C20: a failed parse yields no partial result.  Whenever Parse, at package
\* level or on any parser, strict or not, returns an error, the Version it
\* returns is the zero Version: major, minor and patch 0, no pre-release
\* and no build metadata, even when some of them had been parsed before the
\* error was found.
FailedParseReturnsZeroVersion ==
    (pc = "parsed" /\ out[1].err # NoError) =>
        /\ out[1].v.Major = 0
        /\ out[1].v.Minor = 0
        /\ out[1].v.Patch = 0
        /\ out[1].v.PreRelease = <<>>
        /\ out[1].v.BuildMetadata = <<>>

\* A parse on a parser built non-strict failed in the build metadata of an
\* input that starts with a version of major 1 with a pre-release
\* identifier, and returned the zero Version.
FailedParseReturnsZeroVersionWitness ==
    /\ pc = "parsed"
    /\ last.op = "parser.Parse"
    /\ ~StrictAdherence(parser)
    /\ out[1].err # NoError
    /\ out[1].v = ZeroVersion
    /\ \E k \in 1..(Len(input[1]) - 1) :
          \E prefix \in {ParserParse(FALSE, SubSeq(input[1], 1, k))} :
             /\ input[1][k + 1] = Byte["+"]
             /\ prefix.err = NoError
             /\ prefix.v.Major = 1
             /\ prefix.v.PreRelease # <<>>

\* Whether the parse just made ran on a strict parser: the package-level
\* Parse runs on DefaultParser, p.Parse on the parser built.
StrictUsed ==
    IF last.op = "Parse" THEN StrictAdherence(DefaultParser) ELSE StrictAdherence(parser)

\* Whether the parse just made ran on a parser built with
\* WithStrictAdherence(false).
NonStrictUsed == last.op = "parser.Parse" /\ ~StrictAdherence(parser)

\* The non-empty digit runs and the non-empty all-digit identifiers of the
\* inputs, and what a leading zero is.
NumericRuns == {d \in DigitRuns : Len(d) > 0}
NumericIds == {id \in Ids : Len(id) > 0 /\ isNumeric(id)}
LeadingZero(d) == Len(d) > 1 /\ d[1] = Byte["0"]

\* major.minor.patch without leading zeros, by its syntax.
IsPlainCore(s) ==
    \E i \in 1..Len(s), j \in 1..Len(s) :
        /\ i < j /\ s[i] = Byte["."] /\ s[j] = Byte["."]
        /\ \A d \in {SubSeq(s, 1, i - 1), SubSeq(s, i + 1, j - 1), SubSeq(s, j + 1, Len(s))} :
              Len(d) > 0 /\ isNumeric(d) /\ ~LeadingZero(d)

\* An identifier of [0-9A-Za-z-] with at least one non-digit.
IsTextualIdentifier(id) ==
    /\ Len(id) > 0
    /\ \A i \in 1..Len(id) : isAllowedInIdentifier(id[i])
    /\ ~isNumeric(id)

\* A byte of the identifier alphabet [0-9A-Za-z-] of SemVer 2.0.0.
IsIdentifierByte(ch) ==
    \/ ch \in 48..57
    \/ ch \in 65..90
    \/ ch \in 97..122
    \/ ch = 45

\* t is a dot-separated list of non-empty identifiers over [0-9A-Za-z-];
\* with noLeadingZero, no all-digit identifier longer than one digit starts
\* with '0'.
IsIdentifierList(t, noLeadingZero) ==
    /\ Len(t) > 0
    /\ \A i \in 1..Len(t) : t[i] = 46 \/ IsIdentifierByte(t[i])
    /\ t[1] # 46 /\ t[Len(t)] # 46
    /\ \A i \in 1..(Len(t) - 1) : ~(t[i] = 46 /\ t[i + 1] = 46)
    /\ noLeadingZero =>
          \A i \in 1..Len(t), j \in 1..Len(t) :
              (/\ i < j
               /\ i = 1 \/ t[i - 1] = 46
               /\ j = Len(t) \/ t[j + 1] = 46
               /\ \A k \in i..j : t[k] \in 48..57) => t[i] # 48

\* d is a non-empty digit run without a leading zero.
IsNumericComponent(d) ==
    /\ Len(d) > 0
    /\ \A i \in 1..Len(d) : d[i] \in 48..57
    /\ Len(d) > 1 => d[1] # 48

\* s is MAJOR.MINOR.PATCH[-pre][+build] of SemVer 2.0.0: e is the end of
\* the core, b the end of the pre-release part.
IsSemVer(s) ==
    \E i \in 1..Len(s), j \in 1..Len(s), e \in 1..Len(s), b \in 1..Len(s) :
        /\ i < j /\ j < e /\ e <= b
        /\ s[i] = 46 /\ s[j] = 46
        /\ IsNumericComponent(SubSeq(s, 1, i - 1))
        /\ IsNumericComponent(SubSeq(s, i + 1, j - 1))
        /\ IsNumericComponent(SubSeq(s, j + 1, e))
        /\ \/ b = e
           \/ /\ s[e + 1] = 45
              /\ IsIdentifierList(SubSeq(s, e + 2, b), TRUE)
              /\ \A k \in (e + 2)..b : s[k] # 43
        /\ \/ b = Len(s)
           \/ /\ s[b + 1] = 43
              /\ IsIdentifierList(SubSeq(s, b + 2, Len(s)), FALSE)

\* C13: the strict parser never accepts a string outside the SemVer 2.0.0
\* grammar.  Every input for which Parse returns no error has the form
\* MAJOR.MINOR.PATCH[-pre][+build] with three non-empty digit runs without
\* leading zeros, non-empty dot-separated identifiers over [0-9A-Za-z-], no
\* leading zero in all-digit pre-release identifiers and nothing before or
\* after; "1.0", "v1.0.0", "1.0.0-alpha..1", "1.0.0+build+123", "1.0.0-",
\* "1.0.0+build.!", "1.0.0-beta_$" and "1..0.0" are rejected.
StrictAcceptsOnlySemVer ==
    (pc = "parsed" /\ StrictUsed) =>
        /\ out[1].err = NoError => IsSemVer(input[1])
        /\ input[1] \in InvalidVersions => out[1].err # NoError

\* The strict parser accepted an input with a pre-release part of two
\* identifiers and build metadata of two identifiers.
StrictAcceptsOnlySemVerWitness ==
    /\ pc = "parsed" /\ StrictUsed
    /\ out[1].err = NoError
    /\ Len(out[1].v.PreRelease) = 2
    /\ Len(out[1].v.BuildMetadata) = 2
    /\ IsSemVer(input[1])

\* C2: round trip.  For every Version v a successful Parse returned,
\* Parse(v.String()) succeeds and returns a Version equal to v field by
\* field: major, minor, patch, the pre-release identifiers with their
\* classification in order, the build-metadata identifiers in order.
RoundTrip == pc = "done" => rt.err = NoError /\ rt.v = out[1].v

\* The round trip of a version with a textual and a numeric pre-release
\* identifier and two build identifiers.
RoundTripWitness ==
    /\ pc = "done"
    /\ Len(out[1].v.PreRelease) = 2
    /\ ~out[1].v.PreRelease[1].isNumeric /\ out[1].v.PreRelease[2].isNumeric
    /\ Len(out[1].v.BuildMetadata) = 2
    /\ rt.v = out[1].v

\* C5: Parse accepts every pre-release identifier that is non-empty, made
\* only of [0-9A-Za-z-] and has at least one non-digit, hyphens included,
\* and classifies it as textual with its text preserved.
TextualIdentifierAccepted ==
    (pc = "parsed" /\ last.op = "Parse") =>
        \A k \in 1..Len(input[1]) :
            (/\ input[1][k] = Byte["-"]
             /\ IsPlainCore(SubSeq(input[1], 1, k - 1))
             /\ IsTextualIdentifier(SubSeq(input[1], k + 1, Len(input[1])))) =>
                /\ out[1].err = NoError
                /\ out[1].v.PreRelease =
                      <<[partString |-> SubSeq(input[1], k + 1, Len(input[1])),
                         partNumeric |-> 0, isNumeric |-> FALSE]>>

\* C6: under a strict parser an input whose major, minor or patch digit run,
\* or whose all-digit pre-release identifier, is longer than one digit and
\* starts with '0' is rejected with ErrLeadingZeroInNumericIdentifier.
StrictLeadingZeroError ==
    (pc = "parsed" /\ StrictUsed) =>
        \A d1 \in NumericRuns, d2 \in NumericRuns, d3 \in NumericRuns :
            \A id \in {<<>>} \cup NumericIds :
                (/\ input[1] = d1 \o Dot \o d2 \o Dot \o d3
                                 \o (IF id = <<>> THEN <<>> ELSE Dash \o id)
                 /\ \E d \in {d1, d2, d3, id} : LeadingZero(d)) =>
                    out[1].err = ErrLeadingZeroInNumericIdentifier

\* C7: on a parser built with WithStrictAdherence(false) an all-digit
\* pre-release identifier with a leading zero is no reason for failure:
\* Parse("1.0.0-01") returns no error.
NonStrictLeadingZeroIdentifier ==
    (pc = "parsed" /\ NonStrictUsed) =>
        \A id \in NumericIds :
            (LeadingZero(id) /\ input[1] = V100 \o Dash \o id) => out[1].err = NoError

\* C8: on a parser built with WithStrictAdherence(false) a leading zero in
\* major, minor or patch is accepted: the parse returns no error and the
\* components hold the numeric values of the digit runs.
NonStrictLeadingZeroCore ==
    (pc = "parsed" /\ NonStrictUsed) =>
        \A d1 \in NumericRuns, d2 \in NumericRuns, d3 \in NumericRuns :
            (/\ input[1] = d1 \o Dot \o d2 \o Dot \o d3
             /\ \E d \in {d1, d2, d3} : LeadingZero(d)) =>
                /\ out[1].err = NoError
                /\ out[1].v = [ZeroVersion EXCEPT !.Major = DecimalValue(d1, 0),
                                                  !.Minor = DecimalValue(d2, 0),
                                                  !.Patch = DecimalValue(d3, 0)]

----------------------------------------------------------------------------
(* The comparing program: parse two version strings, then compare the      *)
(* Versions with each other, with themselves and with every other Version. *)

\* The pre-release identifiers of the versions compared: numeric ones whose
\* integer order and byte order differ (2 < 11, "11" < "2"), and a textual one.
CmpIds == {B(<<"2">>), B(<<"1", "1">>), B(<<"a">>)}

RECURSIVE IdLists(_)
\* All lists of 1..n identifiers of CmpIds, joined by dots.
IdLists(n) ==
    IF n = 0 THEN {}
    ELSE CmpIds \cup {l \o Dot \o id : l \in IdLists(n - 1), id \in CmpIds}

CmpCores ==
    {B(<<"0", ".", "0", ".", "1">>), B(<<"0", ".", "1", ".", "0">>),
     B(<<"0", ".", "1", ".", "1">>), B(<<"1", ".", "0", ".", "1">>),
     B(<<"2", ".", "0", ".", "0">>), B(<<"1", "0", ".", "0", ".", "0">>)}

CmpBuilds == {B(<<"+", "b">>), B(<<"+", "0", ".", "0", "1">>)}

\* The ordering chain of TestVersionPreReleaseComparison, lowest first.
PrecedenceChain ==
    <<B(<<"1", ".", "0", ".", "0", "-", "a", "l", "p", "h", "a">>),
      B(<<"1", ".", "0", ".", "0", "-", "a", "l", "p", "h", "a", ".", "1">>),
      B(<<"1", ".", "0", ".", "0", "-", "a", "l", "p", "h", "a", ".", "b", "e", "t", "a">>),
      B(<<"1", ".", "0", ".", "0", "-", "b", "e", "t", "a">>),
      B(<<"1", ".", "0", ".", "0", "-", "b", "e", "t", "a", ".", "2">>),
      B(<<"1", ".", "0", ".", "0", "-", "b", "e", "t", "a", ".", "1", "1">>),
      B(<<"1", ".", "0", ".", "0", "-", "r", "c", ".", "1">>),
      B(<<"1", ".", "0", ".", "0">>)>>

\* Valid version strings: cores that differ in major, minor or patch, with
\* and without a pre-release; 1.0.0 with every list of at most MaxPre
\* identifiers and with a second textual identifier; versions that differ
\* in build metadata only; and the versions of the ordering chain.
CmpInputs ==
    {PrecedenceChain[i] : i \in 1..Len(PrecedenceChain)} \cup
    {c \o p : c \in CmpCores, p \in {<<>>, B(<<"-", "a">>)}}
    \cup {V100 \o p : p \in {<<>>} \cup {Dash \o l : l \in IdLists(MaxPre)}}
    \cup {V100 \o p : p \in {B(<<"-", "a", "b">>), B(<<"-", "a", ".", "a", "b">>)}}
    \cup {V100 \o p \o m : p \in {<<>>, B(<<"-", "a">>), B(<<"-", "2">>)}, m \in CmpBuilds}

\* The Versions the compared inputs parse to.
CmpVersions == {Parse(InitDefaultParser, s).v : s \in CmpInputs}

CmpInit ==
    /\ pc = "start"
    /\ DefaultParser = InitDefaultParser
    /\ parser = NoParser
    /\ input \in {<<a, b>> : a \in CmpInputs, b \in CmpInputs}
    /\ out = <<>>
    /\ rt = None
    /\ cmp = None
    /\ heap = None
    /\ ranges = <<>>
    /\ last = NoCall
    /\ goroutines = <<>>

\* a, _ := Parse(input[0]); b, _ := Parse(input[1])
ParseBothCall ==
    /\ pc = "start"
    /\ out' = <<Parse(DefaultParser, input[1]), Parse(DefaultParser, input[2])>>
    /\ last' = [op |-> "Parse"]
    /\ pc' = "parsed"
    /\ UNCHANGED <<DefaultParser, parser, input, rt, cmp, heap, ranges, goroutines>>

\* What the comparing methods return for x against y, and what a
\* Requirement on y returns for x under each operator.
Results(x, y) ==
    [cmp |-> Compare(x, y), eq |-> Equal(x, y),
     lt |-> LessThan(x, y), le |-> LessThanOrEqual(x, y),
     gt |-> GreaterThan(x, y), ge |-> GreaterThanOrEqual(x, y),
     contains |-> [op \in Operators |-> ReqContains([Op |-> op, Ver |-> y], x)]]

\* The methods called on a and b in both directions, on a with itself, and
\* on a and b with every Version c on either side.
CompareCall ==
    /\ pc = "parsed"
    /\ out[1].err = NoError /\ out[2].err = NoError
    /\ \E a \in {out[1].v}, b \in {out[2].v} :
          cmp' = [ab |-> Results(a, b), ba |-> Results(b, a), aa |-> Results(a, a),
                  third |-> [c \in CmpVersions |->
                                [ac |-> Results(a, c), bc |-> Results(b, c),
                                 ca |-> Results(c, a), cb |-> Results(c, b)]]]
    /\ last' = [op |-> "Compare"]
    /\ pc' = "compared"
    /\ UNCHANGED <<DefaultParser, parser, input, out, rt, heap, ranges, goroutines>>

CmpNext == ParseBothCall \/ CompareCall

CmpSpec == CmpInit /\ [][CmpNext]_vars

\* Versions that agree on everything but, possibly, the build metadata.
SameButBuild(a, b) ==
    /\ a.Major = b.Major /\ a.Minor = b.Minor /\ a.Patch = b.Patch
    /\ a.PreRelease = b.PreRelease

\* C1: Version.Compare is a total order on parsed versions.  For the
\* versions a and b compared and every version c: exactly one of a<b, a=b,
\* a>b holds, with Compare(a,b) = -Compare(b,a) and Compare(a,a) = 0; a<=b
\* and b<=a implies Compare(a,b) = 0; and a<=b and b<=c implies a<=c.
CompareIsTotalOrder ==
    pc = "compared" =>
        /\ cmp.ab.cmp \in {-1, 0, 1}
        /\ cmp.ab.cmp = -cmp.ba.cmp
        /\ cmp.aa.cmp = 0
        /\ \/ cmp.ab.lt /\ ~cmp.ab.eq /\ ~cmp.ab.gt
           \/ ~cmp.ab.lt /\ cmp.ab.eq /\ ~cmp.ab.gt
           \/ ~cmp.ab.lt /\ ~cmp.ab.eq /\ cmp.ab.gt
        /\ (cmp.ab.le /\ cmp.ba.le) => cmp.ab.cmp = 0
        /\ \A c \in CmpVersions :
              (cmp.ab.le /\ cmp.third[c].bc.le) => cmp.third[c].ac.le

\* a below b below some c, a and b differing in a numeric against a textual
\* second identifier.
CompareIsTotalOrderWitness ==
    /\ pc = "compared"
    /\ cmp.ab.lt
    /\ \E c \in CmpVersions : cmp.third[c].bc.lt /\ cmp.third[c].ac.lt
    /\ Len(out[1].v.PreRelease) = 2 /\ Len(out[2].v.PreRelease) = 2
    /\ out[1].v.PreRelease[2].isNumeric /\ ~out[2].v.PreRelease[2].isNumeric

\* The order of two identifier lists p and q: the first position where the
\* identifiers differ decides; when there is none, the longer list is the
\* greater.
Lexicographic(p, q) ==
    IF \E k \in 1..Len(p) : k <= Len(q) /\ PrereleaseCompare(p[k], q[k]) # 0
    THEN PrereleaseCompare(
             p[CHOOSE k \in 1..Len(p) :
                 /\ k <= Len(q) /\ PrereleaseCompare(p[k], q[k]) # 0
                 /\ \A i \in 1..(k - 1) : PrereleaseCompare(p[i], q[i]) = 0],
             q[CHOOSE k \in 1..Len(p) :
                 /\ k <= Len(q) /\ PrereleaseCompare(p[k], q[k]) # 0
                 /\ \A i \in 1..(k - 1) : PrereleaseCompare(p[i], q[i]) = 0])
    ELSE IF Len(p) < Len(q) THEN -1
    ELSE IF Len(p) > Len(q) THEN 1
    ELSE 0

\* C12: for versions with equal major, minor, patch that both have
\* pre-release identifiers, Compare is lexicographic over the identifier
\* sequences, a proper prefix being the lower; and every version of the
\* chain 1.0.0-alpha < 1.0.0-alpha.1 < 1.0.0-alpha.beta < 1.0.0-beta <
\* 1.0.0-beta.2 < 1.0.0-beta.11 < 1.0.0-rc.1 < 1.0.0 is LessThan every later
\* one, adjacent or not.
PrereleaseLexicographic ==
    pc = "compared" =>
        /\ (/\ out[1].v.Major = out[2].v.Major
            /\ out[1].v.Minor = out[2].v.Minor
            /\ out[1].v.Patch = out[2].v.Patch
            /\ Len(out[1].v.PreRelease) > 0
            /\ Len(out[2].v.PreRelease) > 0) =>
               cmp.ab.cmp = Lexicographic(out[1].v.PreRelease, out[2].v.PreRelease)
        /\ \A i \in 1..Len(PrecedenceChain), j \in 1..Len(PrecedenceChain) :
               (i < j /\ input = <<PrecedenceChain[i], PrecedenceChain[j]>>) =>
                   cmp.ab.lt /\ cmp.ba.gt

\* 1.0.0-alpha compared with 1.0.0-alpha.1, a proper prefix, and
\* 1.0.0-beta.2 compared with 1.0.0-beta.11, decided at the second position.
PrereleaseLexicographicWitness ==
    /\ pc = "compared"
    /\ \/ input = <<PrecedenceChain[1], PrecedenceChain[2]>> /\ cmp.ab.cmp = -1
       \/ input = <<PrecedenceChain[5], PrecedenceChain[6]>> /\ cmp.ab.cmp = -1

\* C9: build metadata never affects comparison.  Versions a and b that agree
\* on major, minor, patch and pre-release identifiers have Compare(a,b) = 0
\* and Equal(a,b), whatever their build metadata; and putting b for a, on
\* either side, changes no result of Compare, LessThan, GreaterThan or
\* Requirement.Contains against any version c.
BuildMetadataIgnored ==
    (pc = "compared" /\ SameButBuild(out[1].v, out[2].v)) =>
        /\ cmp.ab.cmp = 0 /\ cmp.ab.eq
        /\ cmp.ba.cmp = 0 /\ cmp.ba.eq
        /\ \A c \in CmpVersions :
              /\ cmp.third[c].ac.cmp = cmp.third[c].bc.cmp
              /\ cmp.third[c].ac.lt = cmp.third[c].bc.lt
              /\ cmp.third[c].ac.gt = cmp.third[c].bc.gt
              /\ cmp.third[c].ac.contains = cmp.third[c].bc.contains
              /\ cmp.third[c].ca.cmp = cmp.third[c].cb.cmp
              /\ cmp.third[c].ca.lt = cmp.third[c].cb.lt
              /\ cmp.third[c].ca.gt = cmp.third[c].cb.gt
              /\ cmp.third[c].ca.contains = cmp.third[c].cb.contains

\* A pre-release version without build metadata compared with the same
\* version carrying two build identifiers.
BuildMetadataIgnoredWitness ==
    /\ pc = "compared"
    /\ SameButBuild(out[1].v, out[2].v)
    /\ Len(out[1].v.PreRelease) > 0
    /\ Len(out[1].v.BuildMetadata) = 0
    /\ Len(out[2].v.BuildMetadata) = 2

\* C10: for versions a and b with equal major, minor and patch, a without
\* pre-release identifiers and b with at least one, Compare(a,b) = 1 and
\* Compare(b,a) = -1, whatever b's identifiers are.
ReleaseAbovePrerelease ==
    (/\ pc = "compared"
     /\ out[1].v.Major = out[2].v.Major
     /\ out[1].v.Minor = out[2].v.Minor
     /\ out[1].v.Patch = out[2].v.Patch
     /\ Len(out[1].v.PreRelease) = 0
     /\ Len(out[2].v.PreRelease) > 0) =>
        cmp.ab.cmp = 1 /\ cmp.ba.cmp = -1

\* A release compared with its pre-release whose first identifier is
\* numeric and which has a second one.
ReleaseAbovePrereleaseWitness ==
    /\ pc = "compared"
    /\ out[1].v.Major = out[2].v.Major
    /\ out[1].v.Minor = out[2].v.Minor
    /\ out[1].v.Patch = out[2].v.Patch
    /\ Len(out[1].v.PreRelease) = 0
    /\ Len(out[2].v.PreRelease) = 2
    /\ out[2].v.PreRelease[1].isNumeric

----------------------------------------------------------------------------
(* Go slices: a slice is a header [arr, len, cap] on a backing array of    *)
(* the heap; arr = 0 is the nil slice.  The slices of this package always  *)
(* start at the first element of their array.                              *)

NilSlice == [arr |-> 0, len |-> 0, cap |-> 0]

\* The capacity append gives the new array when newLen elements do not fit
\* in oldCap (runtime growslice): the length asked for when it is more than
\* double, double otherwise.  The slices of the model stay far below the 256
\* elements where the growth slows, and for the element sizes here (a
\* Requirement, a slice header) and up to 8 elements the allocator's size
\* classes leave this capacity as it is.
GrowCap(oldCap, newLen) ==
    IF newLen > oldCap + oldCap THEN newLen ELSE oldCap + oldCap

\* The elements s[0:len] of a slice on arrays.
Elems(arrays, s) == IF s.arr = 0 THEN <<>> ELSE SubSeq(arrays[s.arr], 1, s.len)

\* append(s, elems...): the arrays afterwards and the slice returned.  When
\* the elements fit in cap(s) they are written into s's own array after
\* s[len-1]; otherwise a new array is allocated and s's elements are copied.
GoAppend(arrays, s, elems, zero) ==
    IF Len(elems) = 0 THEN [arrays |-> arrays, slice |-> s]
    ELSE IF s.len + Len(elems) <= s.cap THEN
        [arrays |-> [arrays EXCEPT ![s.arr] =
                        [i \in 1..s.cap |->
                            IF i > s.len /\ i <= s.len + Len(elems)
                            THEN elems[i - s.len] ELSE @[i]]],
         slice |-> [s EXCEPT !.len = s.len + Len(elems)]]
    ELSE
        LET newLen == s.len + Len(elems)
            newCap == GrowCap(s.cap, newLen)
            array == Elems(arrays, s) \o elems \o [i \in 1..(newCap - newLen) |-> zero]
        IN [arrays |-> Append(arrays, array),
            slice |-> [arr |-> Len(arrays) + 1, len |-> newLen, cap |-> newCap]]

----------------------------------------------------------------------------
(* VersionRange *)

\* The AND-groups of range vr as values: a sequence of sequences of
\* Requirement, read through the slice headers.
Groups(h, vr) ==
    LET outer == Elems(h.groups, vr.Requirements)
    IN [g \in 1..Len(outer) |-> Elems(h.reqs, outer[g])]

\* The inner loop of VersionRange.Contains with matchesAll starting false
\* and set at the first requirement satisfied.
AllContainStartsFalse(andReqs, i, v) ==
    /\ i <= Len(andReqs)
    /\ \A k \in i..Len(andReqs) : ReqContains(andReqs[k], v)

RECURSIVE AllContain(_, _, _)
\* The inner loop of VersionRange.Contains: matchesAll after the loop that
\* breaks at the first requirement not satisfied.
AllContain(andReqs, i, v) ==
    IF i > Len(andReqs) THEN TRUE
    ELSE IF ~ReqContains(andReqs[i], v) THEN FALSE
    ELSE AllContain(andReqs, i + 1, v)

RECURSIVE ContainsFrom(_, _, _)
\* The outer loop of VersionRange.Contains from group g: true at the first
\* group all of whose requirements are satisfied.
ContainsFrom(groups, g, v) ==
    IF g > Len(groups) THEN FALSE
    ELSE IF AllContain(groups[g], 1, v) THEN TRUE
    ELSE ContainsFrom(groups, g + 1, v)

\* VersionRange.Contains
Contains(h, vr, v) == ContainsFrom(Groups(h, vr), 1, v)

----------------------------------------------------------------------------
(* ParseRange *)

\* unicode.IsSpace on the ASCII bytes: \t \n \v \f \r and space.
IsSpace(ch) == ch \in {9, 10, 11, 12, 13, 32}

RECURSIVE SplitOr(_, _, _, _)
\* strings.Split(s, "||") from position i (1-based), the current part
\* starting at start.
SplitOr(s, i, start, parts) ==
    IF i > Len(s) THEN Append(parts, SubSeq(s, start, Len(s)))
    ELSE IF i < Len(s) /\ s[i] = Byte["|"] /\ s[i + 1] = Byte["|"]
    THEN SplitOr(s, i + 2, i + 2, Append(parts, SubSeq(s, start, i - 1)))
    ELSE SplitOr(s, i + 1, start, parts)

\* strings.TrimSpace leaving the string as it is.
TrimSpaceNothing(s) == s

RECURSIVE TrimSpace(_)
\* strings.TrimSpace
TrimSpace(s) ==
    IF Len(s) = 0 THEN s
    ELSE IF IsSpace(s[1]) THEN TrimSpace(Tail(s))
    ELSE IF IsSpace(s[Len(s)]) THEN TrimSpace(SubSeq(s, 1, Len(s) - 1))
    ELSE s

RECURSIVE Fields(_, _, _, _)
\* strings.Fields from position i: the maximal runs of non-space bytes;
\* start is where the current run began, 0 outside a run.
Fields(s, i, start, fields) ==
    IF i > Len(s)
    THEN (IF start > 0 THEN Append(fields, SubSeq(s, start, Len(s))) ELSE fields)
    ELSE IF IsSpace(s[i])
    THEN Fields(s, i + 1, 0,
                IF start > 0 THEN Append(fields, SubSeq(s, start, i - 1)) ELSE fields)
    ELSE Fields(s, i + 1, IF start > 0 THEN start ELSE i, fields)

\* The character class [0-9A-Za-z.\-+] of rangeRegex.
InVersionClass(ch) ==
    \/ (ch >= Byte["0"] /\ ch <= Byte["9"])
    \/ (ch >= Byte["A"] /\ ch <= Byte["Z"])
    \/ (ch >= Byte["a"] /\ ch <= Byte["z"])
    \/ ch \in {Byte["."], Byte["-"], Byte["+"]}

\* Whether token is prefix followed by a non-empty run of the class.
MatchesWith(token, prefix) ==
    /\ Len(token) > Len(prefix)
    /\ SubSeq(token, 1, Len(prefix)) = prefix
    /\ \A i \in (Len(prefix) + 1)..Len(token) : InVersionClass(token[i])

\* rangeRegex matching every token, all of it the version.
RangeRegexMatchAnyToken(token) == [ok |-> TRUE, op |-> "", ver |-> token]

\* rangeRegex giving ">=" as the operator of a token that has none.
RangeRegexMatchNoOperatorGte(token) ==
    LET order == <<OpGte, OpLte, OpGt, OpLt, OpEq, OpNeq>>
        hits == {k \in 1..Len(order) : MatchesWith(token, OperatorText[order[k]])}
    IN
    IF hits # {} THEN
        LET k == CHOOSE x \in hits : \A y \in hits : x <= y
        IN [ok |-> TRUE, op |-> order[k],
            ver |-> SubSeq(token, Len(OperatorText[order[k]]) + 1, Len(token))]
    ELSE IF MatchesWith(token, <<>>) THEN [ok |-> TRUE, op |-> OpGte, ver |-> token]
    ELSE [ok |-> FALSE, op |-> "", ver |-> <<>>]

\* rangeRegex.FindStringSubmatch(token) for a token without white space:
\* ^(>=|<=|>|<|=|!=)?\s*([0-9A-Za-z.\-+]+)$.  The alternatives are tried in
\* the order written, then the empty operator: [ok, op, ver].
RangeRegexMatch(token) ==
    LET order == <<OpGte, OpLte, OpGt, OpLt, OpEq, OpNeq>>
        hits == {k \in 1..Len(order) : MatchesWith(token, OperatorText[order[k]])}
    IN
    IF hits # {} THEN
        LET k == CHOOSE x \in hits : \A y \in hits : x <= y
        IN [ok |-> TRUE, op |-> order[k],
            ver |-> SubSeq(token, Len(OperatorText[order[k]]) + 1, Len(token))]
    ELSE IF MatchesWith(token, <<>>) THEN [ok |-> TRUE, op |-> "", ver |-> token]
    ELSE [ok |-> FALSE, op |-> "", ver |-> <<>>]

\* A slice local to a call, before it is stored: its elements and capacity.
NilLocal == [elems |-> <<>>, cap |-> 0]

\* append(l, e) on a local slice: the array is replaced when it is full.
LocalAppend(l, e) ==
    [elems |-> Append(l.elems, e),
     cap |-> IF Len(l.elems) + 1 <= l.cap THEN l.cap
             ELSE GrowCap(l.cap, Len(l.elems) + 1)]

RECURSIVE ParseTokens(_, _, _, _)
\* The token loop of ParseRange from token i: [reqs, err].
ParseTokens(dp, tokens, i, reqs) ==
    IF i > Len(tokens) THEN [reqs |-> reqs, err |-> NoError]
    ELSE Bind(RangeRegexMatch(tokens[i]), LAMBDA matches :
        IF ~matches.ok THEN [reqs |-> NilLocal, err |-> "invalid range token"]
        ELSE Bind(Parse(dp, matches.ver), LAMBDA ver :
            IF ver.err # NoError
            THEN [reqs |-> NilLocal, err |-> "invalid version in range"]
            ELSE ParseTokens(dp, tokens, i + 1,
                     LocalAppend(reqs, [Op |-> IF matches.op = "" THEN OpEq ELSE matches.op,
                                        Ver |-> ver.v]))))

RECURSIVE ParseOrParts(_, _, _, _)
\* The loop of ParseRange over the parts between "||" from part i:
\* [requirements, err], requirements a local slice of local slices.
ParseOrParts(dp, orParts, i, requirements) ==
    IF i > Len(orParts) THEN [requirements |-> requirements, err |-> NoError]
    ELSE Bind(TrimSpace(orParts[i]), LAMBDA part :
        IF part = <<>> THEN ParseOrParts(dp, orParts, i + 1, requirements)
        ELSE Bind(ParseTokens(dp, Fields(part, 1, 0, <<>>), 1, NilLocal), LAMBDA group :
            IF group.err # NoError THEN [requirements |-> NilLocal, err |-> group.err]
            ELSE ParseOrParts(dp, orParts, i + 1, LocalAppend(requirements, group.reqs))))

\* ParseRange(r) up to the return: [requirements, err]
ParseRange(dp, r) == ParseOrParts(dp, SplitOr(r, 1, 1, <<>>), 1, NilLocal)

\* A local slice stored on the heap: its array, filled up to its capacity
\* with zero values, and the header on it.
Store(arrays, l, zero) ==
    IF l.cap = 0 THEN [arrays |-> arrays, slice |-> NilSlice]
    ELSE [arrays |-> Append(arrays, l.elems \o [i \in 1..(l.cap - Len(l.elems)) |-> zero]),
          slice |-> [arr |-> Len(arrays) + 1, len |-> Len(l.elems), cap |-> l.cap]]

RECURSIVE StoreGroups(_, _, _, _)
\* The groups of a parsed range stored one by one: the heap afterwards and
\* the local slice of their headers.
StoreGroups(h, groups, i, headers) ==
    IF i > Len(groups) THEN [heap |-> h, headers |-> headers]
    ELSE Bind(Store(h.reqs, groups[i], ZeroRequirement), LAMBDA st :
             StoreGroups([h EXCEPT !.reqs = st.arrays], groups, i + 1,
                         Append(headers, st.slice)))

\* &VersionRange{Requirements: requirements}: the heap with the slices of
\* requirements on it and the VersionRange holding the outer header.
NewVersionRange(h, requirements) ==
    Bind(StoreGroups(h, requirements.elems, 1, <<>>), LAMBDA inner :
    Bind(Store(inner.heap.groups, [elems |-> inner.headers, cap |-> requirements.cap],
               NilSlice), LAMBDA outer :
        [heap |-> [inner.heap EXCEPT !.groups = outer.arrays],
         vr |-> [Requirements |-> outer.slice]]))

----------------------------------------------------------------------------
(* OR and AND *)

\* VersionRange.OR appending the receiver's groups to the argument's.
OROtherFirst(h, vr, other) ==
    Bind(GoAppend(h.groups, other.Requirements, Elems(h.groups, vr.Requirements),
                  NilSlice), LAMBDA app :
        [heap |-> [h EXCEPT !.groups = app.arrays], vr |-> [Requirements |-> app.slice]])

\* VersionRange.OR: the heap afterwards and the VersionRange returned.
OR(h, vr, other) ==
    Bind(GoAppend(h.groups, vr.Requirements, Elems(h.groups, other.Requirements),
                  NilSlice), LAMBDA app :
        [heap |-> [h EXCEPT !.groups = app.arrays], vr |-> [Requirements |-> app.slice]])

RECURSIVE ANDLoop(_, _, _, _, _, _)
\* The two loops of VersionRange.AND at group i of vr and group j of other,
\* outer1 and outer2 being the slice headers the range clauses iterate over:
\* the heap afterwards and combinedRequirements, still local.
ANDLoop(h, outer1, outer2, i, j, combinedRequirements) ==
    IF i > Len(outer1) THEN [heap |-> h, combined |-> combinedRequirements]
    ELSE IF j > Len(outer2) THEN ANDLoop(h, outer1, outer2, i + 1, 1, combinedRequirements)
    ELSE
        Bind(GoAppend(h.reqs, outer1[i], Elems(h.reqs, outer2[j]), ZeroRequirement),
             LAMBDA combinedReqs :
                ANDLoop([h EXCEPT !.reqs = combinedReqs.arrays], outer1, outer2, i, j + 1,
                        LocalAppend(combinedRequirements, combinedReqs.slice)))

\* VersionRange.AND: the heap afterwards and the VersionRange returned.
AND(h, vr, other) ==
    Bind(ANDLoop(h, Elems(h.groups, vr.Requirements),
                 Elems(h.groups, other.Requirements), 1, 1, NilLocal), LAMBDA loop :
    Bind(Store(loop.heap.groups, loop.combined, NilSlice), LAMBDA st :
        [heap |-> [loop.heap EXCEPT !.groups = st.arrays],
         vr |-> [Requirements |-> st.slice]]))

----------------------------------------------------------------------------
(* The range program: any sequence of ParseRange, AND, OR and Contains     *)
(* calls on the ranges built so far.                                        *)

\* Most VersionRange values the program builds.
MaxRanges == 3
\* Most AND-groups of a VersionRange that AND or OR builds.
MaxGroups == 4

Space == <<Byte[" "]>>
OrBar == B(<<"|", "|">>)
V150 == B(<<"1", ".", "5", ".", "0">>)
V200 == B(<<"2", ".", "0", ".", "0">>)
V250 == B(<<"2", ".", "5", ".", "0">>)
V300 == B(<<"3", ".", "0", ".", "0">>)

\* Range strings that parse: one to three groups of one to three terms, a
\* term without operator, tabs and doubled spaces, and no group at all.
ValidRangeInputs ==
    {B(<<">">>) \o V100,
     B(<<">", "=">>) \o V100 \o Space \o B(<<"<">>) \o V300 \o Space \o B(<<"!", "=">>) \o V200,
     B(<<"=">>) \o V150 \o Space \o OrBar \o Space \o B(<<"=">>) \o V250,
     Space \o OrBar \o Space,
     B(<<"<", "=">>) \o V100 \o Space \o OrBar \o Space \o V200 \o Space \o OrBar
        \o B(<<"\t", ">">>) \o V250,
     B(<<">", "=">>) \o V150 \o Space \o Space \o B(<<"<">>) \o V250}

\* Range strings that do not parse.
InvalidRangeInputs ==
    {B(<<"=", "=">>) \o V100, B(<<"!">>) \o V100, B(<<">", "=", "1", ".", "0">>)}

RangeInputs == ValidRangeInputs \cup InvalidRangeInputs

\* The versions Contains is asked about.
ContainsVersions == {Parse(InitDefaultParser, s).v : s \in {V100, V150, V200, V250}}

RangeInit ==
    /\ pc = "ranges"
    /\ DefaultParser = InitDefaultParser
    /\ parser = NoParser
    /\ input = <<>>
    /\ out = <<>>
    /\ rt = None
    /\ cmp = None
    /\ heap = [reqs |-> <<>>, groups |-> <<>>]
    /\ ranges = <<>>
    /\ last = NoCall
    /\ goroutines = <<>>

\* r, err := ParseRange(text).  ranges[r] is the VersionRange r points to
\* and out[r] records the call that returned it with the groups it had then;
\* a failed call returns the nil pointer, 0.
ParseRangeCall ==
    /\ Len(ranges) < MaxRanges
    /\ \E text \in RangeInputs : \E res \in {ParseRange(DefaultParser, text)} :
          IF res.err # NoError
          THEN /\ last' = [op |-> "ParseRange", text |-> text, r |-> 0, err |-> res.err]
               /\ UNCHANGED <<heap, ranges, out, goroutines>>
          ELSE \E new \in {NewVersionRange(heap, res.requirements)} :
               /\ heap' = new.heap
               /\ ranges' = Append(ranges, new.vr)
               /\ out' = Append(out, [op |-> "ParseRange", text |-> text,
                                      groups |-> Groups(new.heap, new.vr)])
               /\ last' = [op |-> "ParseRange", text |-> text, r |-> Len(ranges) + 1,
                           err |-> NoError]
    /\ UNCHANGED <<pc, DefaultParser, parser, input, rt, cmp, goroutines>>

\* r := ranges[r1].AND(ranges[r2])
ANDCall ==
    /\ Len(ranges) < MaxRanges
    /\ \E r1 \in 1..Len(ranges), r2 \in 1..Len(ranges) :
          /\ ranges[r1].Requirements.len * ranges[r2].Requirements.len <= MaxGroups
          /\ \E res \in {AND(heap, ranges[r1], ranges[r2])} :
             /\ heap' = res.heap
             /\ ranges' = Append(ranges, res.vr)
             /\ out' = Append(out, [op |-> "AND", r1 |-> r1, r2 |-> r2,
                                    groups |-> Groups(res.heap, res.vr)])
             /\ last' = [op |-> "AND", r1 |-> r1, r2 |-> r2, r |-> Len(ranges) + 1]
    /\ UNCHANGED <<pc, DefaultParser, parser, input, rt, cmp, goroutines>>

\* r := ranges[r1].OR(ranges[r2])
ORCall ==
    /\ Len(ranges) < MaxRanges
    /\ \E r1 \in 1..Len(ranges), r2 \in 1..Len(ranges) :
          /\ ranges[r1].Requirements.len + ranges[r2].Requirements.len <= MaxGroups
          /\ \E res \in {OR(heap, ranges[r1], ranges[r2])} :
             /\ heap' = res.heap
             /\ ranges' = Append(ranges, res.vr)
             /\ out' = Append(out, [op |-> "OR", r1 |-> r1, r2 |-> r2,
                                    groups |-> Groups(res.heap, res.vr)])
             /\ last' = [op |-> "OR", r1 |-> r1, r2 |-> r2, r |-> Len(ranges) + 1]
    /\ UNCHANGED <<pc, DefaultParser, parser, input, rt, cmp, goroutines>>

\* ok := ranges[r].Contains(v)
ContainsCall ==
    /\ \E r \in 1..Len(ranges), v \in ContainsVersions :
          last' = [op |-> "Contains", r |-> r, v |-> v,
                   result |-> Contains(heap, ranges[r], v)]
    /\ UNCHANGED <<pc, DefaultParser, parser, input, out, rt, cmp, heap, ranges, goroutines>>

RangeNext == ParseRangeCall \/ ANDCall \/ ORCall \/ ContainsCall

RangeSpec == RangeInit /\ [][RangeNext]_vars

\* A Requirement (op, w) satisfied by v, in terms of Compare(v, w).
Satisfied(r, v) ==
    CASE r.Op = "=" -> Compare(v, r.Ver) = 0
      [] r.Op = ">" -> Compare(v, r.Ver) = 1
      [] r.Op = ">=" -> Compare(v, r.Ver) >= 0
      [] r.Op = "<" -> Compare(v, r.Ver) = -1
      [] r.Op = "<=" -> Compare(v, r.Ver) <= 0
      [] r.Op = "!=" -> Compare(v, r.Ver) # 0

\* Some AND-group of groups has every Requirement satisfied by v.
SomeGroupSatisfied(groups, v) ==
    \E g \in 1..Len(groups) : \A k \in 1..Len(groups[g]) : Satisfied(groups[g][k], v)

\* C3: VersionRange.Contains(v) is true iff at least one AND-group of the
\* range has every Requirement satisfied by v, a Requirement (op, w) being
\* satisfied as Compare(v, w) says for op; a range with no AND-group
\* contains no version.
ContainsIsSomeGroupSatisfied ==
    last.op = "Contains" =>
        last.result = SomeGroupSatisfied(Groups(heap, ranges[last.r]), last.v)

\* Contains answered true on a range of several groups whose first group
\* is not satisfied and whose satisfied group has a ">" requirement.
ContainsIsSomeGroupSatisfiedWitness ==
    /\ last.op = "Contains"
    /\ last.result
    /\ \E groups \in {Groups(heap, ranges[last.r])} :
          /\ Len(groups) > 1
          /\ ~SomeGroupSatisfied(<<groups[1]>>, last.v)
          /\ \E g \in 1..Len(groups) :
                /\ SomeGroupSatisfied(<<groups[g]>>, last.v)
                /\ \E k \in 1..Len(groups[g]) : groups[g][k].Op = OpGt

\* C4: for ranges r1 and r2 produced by ParseRange, r1.AND(r2) has exactly
\* one AND-group per pair (g1 of r1, g2 of r2), equal to g1 followed by g2,
\* so that for every version v r1.AND(r2).Contains(v) is r1.Contains(v) and
\* r2.Contains(v).
ANDIsCrossProduct ==
    (/\ last.op = "AND"
     /\ out[last.r1].op = "ParseRange"
     /\ out[last.r2].op = "ParseRange") =>
        \E g1 \in {Groups(heap, ranges[last.r1])}, g2 \in {Groups(heap, ranges[last.r2])},
           g \in {Groups(heap, ranges[last.r])} :
            /\ Len(g) = Len(g1) * Len(g2)
            /\ \A i \in 1..Len(g1), j \in 1..Len(g2) :
                  \E k \in 1..Len(g) : g[k] = g1[i] \o g2[j]
            /\ \A v \in ContainsVersions :
                  Contains(heap, ranges[last.r], v) =
                      (Contains(heap, ranges[last.r1], v) /\ Contains(heap, ranges[last.r2], v))

\* C16: for all ranges r1 and r2, r1.OR(r2) has as AND-groups the groups of
\* r1 followed by the groups of r2, in order, so that for every version v
\* r1.OR(r2).Contains(v) is r1.Contains(v) or r2.Contains(v).  The operands
\* are read before the call, the result when it returns.
ORIsConcatenation ==
    [][(Len(ranges') = Len(ranges) + 1 /\ last'.op = "OR") =>
        /\ Groups(heap', ranges'[last'.r]) =
              Groups(heap, ranges[last'.r1]) \o Groups(heap, ranges[last'.r2])
        /\ \A v \in ContainsVersions :
              Contains(heap', ranges'[last'.r], v) =
                  (Contains(heap, ranges[last'.r1], v)
                   \/ Contains(heap, ranges[last'.r2], v))]_vars

\* OR has returned a range of at least three groups, written into the free
\* capacity of its receiver's array, that contains a version the receiver
\* does not contain and the argument does.
ORIsConcatenationWitness ==
    /\ last.op = "OR"
    /\ Len(Groups(heap, ranges[last.r])) >= 3
    /\ ranges[last.r].Requirements.arr = ranges[last.r1].Requirements.arr
    /\ \E v \in ContainsVersions :
          /\ ~Contains(heap, ranges[last.r1], v)
          /\ Contains(heap, ranges[last.r2], v)
          /\ Contains(heap, ranges[last.r], v)

----------------------------------------------------------------------------
(* The combining program: parse three range strings, then combine the      *)
(* ranges at hand with AND and OR, each result joining the ranges at hand. *)

\* Most ranges the combining program builds with AND and OR.
MaxCombined == 2

\* The second and third range string of the combining program: one group of
\* one requirement, twice, and two such groups.
OperandInputs ==
    {B(<<">">>) \o V100,
     B(<<"<">>) \o V200,
     B(<<"=">>) \o V150 \o Space \o OrBar \o Space \o B(<<"=">>) \o V250}

RECURSIVE ParseRangesFrom(_, _, _, _)
\* ParseRange on texts[i], texts[i+1], ... in turn: the heap, the ranges and
\* the records of the calls afterwards.  A failed call adds no range.
ParseRangesFrom(dp, texts, i, st) ==
    IF i > Len(texts) THEN st
    ELSE Bind(ParseRange(dp, texts[i]), LAMBDA res :
        IF res.err # NoError THEN ParseRangesFrom(dp, texts, i + 1, st)
        ELSE Bind(NewVersionRange(st.heap, res.requirements), LAMBDA new :
            ParseRangesFrom(dp, texts, i + 1,
                [heap |-> new.heap,
                 ranges |-> Append(st.ranges, new.vr),
                 out |-> Append(st.out, [op |-> "ParseRange", text |-> texts[i],
                                         groups |-> Groups(new.heap, new.vr)])])))

CombineInit ==
    /\ pc = "start"
    /\ DefaultParser = InitDefaultParser
    /\ parser = NoParser
    /\ input \in {<<r, a, b>> : r \in ValidRangeInputs, a \in OperandInputs,
                                b \in OperandInputs}
    /\ out = <<>>
    /\ rt = None
    /\ cmp = None
    /\ heap = [reqs |-> <<>>, groups |-> <<>>]
    /\ ranges = <<>>
    /\ last = NoCall
    /\ goroutines = <<>>

\* r, _ := ParseRange(input[0]); a, _ := ParseRange(input[1]); b, _ := ParseRange(input[2])
ParseRangesCall ==
    /\ pc = "start"
    /\ \E st \in {ParseRangesFrom(DefaultParser, input, 1,
                                   [heap |-> heap, ranges |-> <<>>, out |-> <<>>])} :
          /\ heap' = st.heap
          /\ ranges' = st.ranges
          /\ out' = st.out
    /\ last' = [op |-> "ParseRange"]
    /\ pc' = "parsed"
    /\ UNCHANGED <<DefaultParser, parser, input, rt, cmp, goroutines>>

\* c := ranges[r1].AND(ranges[r2]) on the ranges at hand
CombineANDCall ==
    /\ pc = "parsed"
    /\ Len(ranges) < Len(input) + MaxCombined
    /\ \E r1 \in 1..Len(ranges), r2 \in 1..Len(ranges) :
          /\ ranges[r1].Requirements.len * ranges[r2].Requirements.len <= MaxGroups
          /\ \E res \in {AND(heap, ranges[r1], ranges[r2])} :
             /\ heap' = res.heap
             /\ ranges' = Append(ranges, res.vr)
             /\ out' = Append(out, [op |-> "AND", r1 |-> r1, r2 |-> r2,
                                    groups |-> Groups(res.heap, res.vr)])
             /\ last' = [op |-> "AND", r1 |-> r1, r2 |-> r2, r |-> Len(ranges) + 1]
    /\ UNCHANGED <<pc, DefaultParser, parser, input, rt, cmp, goroutines>>

\* c := ranges[r1].OR(ranges[r2]) on the ranges at hand
CombineORCall ==
    /\ pc = "parsed"
    /\ Len(ranges) < Len(input) + MaxCombined
    /\ \E r1 \in 1..Len(ranges), r2 \in 1..Len(ranges) :
          /\ ranges[r1].Requirements.len + ranges[r2].Requirements.len <= MaxGroups
          /\ \E res \in {OR(heap, ranges[r1], ranges[r2])} :
             /\ heap' = res.heap
             /\ ranges' = Append(ranges, res.vr)
             /\ out' = Append(out, [op |-> "OR", r1 |-> r1, r2 |-> r2,
                                    groups |-> Groups(res.heap, res.vr)])
             /\ last' = [op |-> "OR", r1 |-> r1, r2 |-> r2, r |-> Len(ranges) + 1]
    /\ UNCHANGED <<pc, DefaultParser, parser, input, rt, cmp, goroutines>>

CombineNext == ParseRangesCall \/ CombineANDCall \/ CombineORCall

CombineSpec == CombineInit /\ [][CombineNext]_vars

\* C14: no operation changes a value that was returned earlier.  After any
\* sequence of ParseRange, AND and OR calls every VersionRange returned by an
\* earlier call still has the AND-groups, with the requirements, it had at
\* the moment it was returned; so calling r.OR(b) or r.AND(b) after
\* c1 = r.OR(a) or c1 = r.AND(a) leaves c1, r, a and b unchanged.
ReturnedRangesUnchanged ==
    \A r \in 1..Len(ranges) : Groups(heap, ranges[r]) = out[r].groups

----------------------------------------------------------------------------
(* The concurrent program: parse three range strings r, a and b, then      *)
(* start two goroutines that each make one call on the shared range r:     *)
(* r.Contains(v), r.OR(a), r.OR(b), r.AND(a) or r.AND(b).  Nothing         *)
(* synchronizes the goroutines, so the steps of the two calls interleave   *)
(* in any order.  A step is one append of the call, or the whole of a      *)
(* Contains; each goroutine records the cells of the backing arrays its    *)
(* call has read and written.                                              *)

\* The cells from..to of backing array arr of the kind "reqs" or "groups".
Cells(kind, arr, from, to) == {<<kind, arr, i>> : i \in from..to}

\* The cells append(s, n elements...) writes in memory other goroutines can
\* reach: the free cells after s[len-1] when the elements fit in cap(s),
\* none when a new array is allocated.
AppendWrites(kind, s, n) ==
    IF n > 0 /\ s.len + n <= s.cap THEN Cells(kind, s.arr, s.len + 1, s.len + n)
    ELSE {}

\* The cells of s that append reads: those it copies to the new array when
\* the elements do not fit.
AppendReads(kind, s, n) ==
    IF n > 0 /\ s.len + n > s.cap THEN Cells(kind, s.arr, 1, s.len) ELSE {}

\* The cells r.Contains(v) reads: the groups up to the first one that is
\* satisfied, and in each of them the requirements up to the first one that
\* is not.
ContainsReads(h, vr, v) ==
    LET outer == Elems(h.groups, vr.Requirements)
        groups == Groups(h, vr)
        matching == {g \in 1..Len(groups) : AllContain(groups[g], 1, v)}
        lastGroup == IF matching = {} THEN Len(groups)
                     ELSE CHOOSE g \in matching : \A k \in matching : g <= k
        LastReq(g) ==
            LET failing == {i \in 1..Len(groups[g]) : ~ReqContains(groups[g][i], v)}
            IN IF failing = {} THEN Len(groups[g])
               ELSE CHOOSE i \in failing : \A k \in failing : i <= k
    IN Cells("groups", vr.Requirements.arr, 1, lastGroup)
       \cup UNION {Cells("reqs", outer[g].arr, 1, LastReq(g)) : g \in 1..lastGroup}

\* The calls a goroutine can make on r = ranges[1]; other is the index of
\* the argument range.
GoCalls ==
    {[op |-> "Contains", other |-> 0, v |-> v] : v \in ContainsVersions}
    \cup {[op |-> o, other |-> x, v |-> ZeroVersion] : o \in {"OR", "AND"}, x \in 2..3}

\* What call c returns when nothing else runs: a boolean for Contains, the
\* AND-groups of the range returned for OR and AND.
RunAlone(h, rs, c) ==
    IF c.op = "Contains" THEN Contains(h, rs[1], c.v)
    ELSE IF c.op = "OR"
    THEN Bind(OR(h, rs[1], rs[c.other]), LAMBDA res : Groups(res.heap, res.vr))
    ELSE Bind(AND(h, rs[1], rs[c.other]), LAMBDA res : Groups(res.heap, res.vr))

\* A goroutine about to make call c: its position in the call, the loop
\* indices and combinedRequirements of AND, the slice OR's append returned,
\* and the cells read and written so far.
NewGoroutine(h, rs, c) ==
    [call |-> c, at |-> "call", i |-> 1, j |-> 1, combined |-> <<>>,
     slice |-> NilSlice, reads |-> {}, writes |-> {},
     alone |-> RunAlone(h, rs, c), result |-> None]

\* go func() { r.<call 1> }(); go func() { r.<call 2> }()
GoStatement ==
    /\ pc = "parsed"
    /\ Len(ranges) = 3
    /\ \E c1 \in GoCalls, c2 \in GoCalls :
          goroutines' = <<NewGoroutine(heap, ranges, c1), NewGoroutine(heap, ranges, c2)>>
    /\ pc' = "running"
    /\ UNCHANGED <<DefaultParser, parser, input, out, rt, cmp, heap, ranges, last>>

\* r.Contains(v) in goroutine g
GoContains ==
    /\ pc = "running"
    /\ \E g \in 1..Len(goroutines) :
          /\ goroutines[g].at = "call"
          /\ goroutines[g].call.op = "Contains"
          /\ goroutines' = [goroutines EXCEPT ![g] =
                [@ EXCEPT !.at = "done",
                          !.reads = ContainsReads(heap, ranges[1], goroutines[g].call.v),
                          !.result = Contains(heap, ranges[1], goroutines[g].call.v)]]
    /\ UNCHANGED <<pc, DefaultParser, parser, input, out, rt, cmp, heap, ranges, last>>

\* append(vr.Requirements, other.Requirements...) of r.OR in goroutine g
GoORAppend ==
    /\ pc = "running"
    /\ \E g \in 1..Len(goroutines) :
          /\ goroutines[g].at = "call"
          /\ goroutines[g].call.op = "OR"
          /\ \E vr \in {ranges[1].Requirements},
                other \in {ranges[goroutines[g].call.other].Requirements} :
             \E app \in {GoAppend(heap.groups, vr, Elems(heap.groups, other), NilSlice)} :
                /\ heap' = [heap EXCEPT !.groups = app.arrays]
                /\ goroutines' = [goroutines EXCEPT ![g] =
                      [@ EXCEPT !.at = "return",
                                !.slice = app.slice,
                                !.reads = Cells("groups", other.arr, 1, other.len)
                                          \cup AppendReads("groups", vr, other.len),
                                !.writes = AppendWrites("groups", vr, other.len)]]
    /\ UNCHANGED <<pc, DefaultParser, parser, input, out, rt, cmp, ranges, last>>

\* One pass of the inner loop of r.AND in goroutine g: combinedReqs :=
\* append(reqs1, reqs2...) and the append to combinedRequirements, which is
\* local; then on to the next pair of groups, or out of the loops.
GoANDAppend ==
    /\ pc = "running"
    /\ \E g \in 1..Len(goroutines) :
          /\ goroutines[g].at = "call"
          /\ goroutines[g].call.op = "AND"
          /\ \E vr \in {ranges[1].Requirements},
                other \in {ranges[goroutines[g].call.other].Requirements},
                i \in {goroutines[g].i}, j \in {goroutines[g].j} :
             IF vr.len = 0 \/ other.len = 0
             THEN /\ goroutines' = [goroutines EXCEPT ![g].at = "return"]
                  /\ UNCHANGED heap
             ELSE \E reqs1 \in {heap.groups[vr.arr][i]},
                     reqs2 \in {heap.groups[other.arr][j]} :
                  \E combinedReqs \in {GoAppend(heap.reqs, reqs1, Elems(heap.reqs, reqs2),
                                                ZeroRequirement)} :
                     /\ heap' = [heap EXCEPT !.reqs = combinedReqs.arrays]
                     /\ goroutines' = [goroutines EXCEPT ![g] =
                           [@ EXCEPT !.at = IF j = other.len /\ i = vr.len
                                            THEN "return" ELSE "call",
                                     !.i = IF j = other.len THEN i + 1 ELSE i,
                                     !.j = IF j = other.len THEN 1 ELSE j + 1,
                                     !.combined = Append(@, combinedReqs.slice),
                                     !.reads = @ \cup {<<"groups", vr.arr, i>>,
                                                       <<"groups", other.arr, j>>}
                                                 \cup Cells("reqs", reqs2.arr, 1, reqs2.len)
                                                 \cup AppendReads("reqs", reqs1, reqs2.len),
                                     !.writes = @ \cup AppendWrites("reqs", reqs1,
                                                                    reqs2.len)]]
    /\ UNCHANGED <<pc, DefaultParser, parser, input, out, rt, cmp, ranges, last>>

\* return &VersionRange{...} of r.OR or r.AND in goroutine g: the result is
\* the AND-groups the caller finds in the range handed back.
GoReturn ==
    /\ pc = "running"
    /\ \E g \in 1..Len(goroutines) :
          /\ goroutines[g].at = "return"
          /\ goroutines' = [goroutines EXCEPT ![g] =
                [@ EXCEPT !.at = "done",
                          !.result =
                              IF goroutines[g].call.op = "OR"
                              THEN Groups(heap, [Requirements |-> goroutines[g].slice])
                              ELSE [k \in 1..Len(goroutines[g].combined) |->
                                       Elems(heap.reqs, goroutines[g].combined[k])]]]
    /\ UNCHANGED <<pc, DefaultParser, parser, input, out, rt, cmp, heap, ranges, last>>

ConcNext == ParseRangesCall \/ GoStatement \/ GoContains \/ GoORAppend \/ GoANDAppend
            \/ GoReturn

ConcSpec == CombineInit /\ [][ConcNext]_vars

\* Two calls conflict when one has written a cell the other has read or
\* written.
Conflict(g1, g2) ==
    g1.writes \cap (g2.reads \cup g2.writes) # {}

\* C15: concurrent use of one shared VersionRange without synchronization
\* is safe.  When goroutines interleave Contains, OR and AND calls on the
\* same receiver, no call writes a memory location another call reads or
\* writes, and every call returns what it returns when it runs alone.
ConcurrentUseSafe ==
    pc = "running" =>
        /\ \A g1 \in 1..Len(goroutines), g2 \in 1..Len(goroutines) :
              g1 # g2 => ~Conflict(goroutines[g1], goroutines[g2])
        /\ \A g \in 1..Len(goroutines) :
              goroutines[g].at = "done" => goroutines[g].result = goroutines[g].alone

----------------------------------------------------------------------------
(* The range-text program: hand one or two range strings to ParseRange in  *)
(* turn, keeping what each call returned, then ask the ranges returned     *)
(* about versions.                                                         *)

\* Range strings with empty and blank parts between "||": "a || || b", a
\* leading and a trailing "||", the empty string, blanks only, "||" alone,
\* and blank parts between groups of two terms.
BlankPartInputs ==
    {B(<<">">>) \o V100 \o Space \o OrBar \o Space \o OrBar \o Space \o B(<<"<">>) \o V200,
     OrBar \o Space \o B(<<">">>) \o V100,
     B(<<">">>) \o V100 \o Space \o OrBar,
     <<>>,
     Space \o B(<<"\t">>),
     OrBar,
     B(<<">">>) \o V100 \o Space \o B(<<"<">>) \o V300 \o OrBar \o B(<<"\t">>) \o OrBar
        \o B(<<"=">>) \o V250 \o Space \o B(<<"!", "=">>) \o V200}

\* Range strings with a bad token: after a good one, in a later part, a bad
\* version before a bad term and the reverse, an operator alone, a version
\* the strict parser rejects, a single bar, and TestParseRange's "invalid".
BadTokenInputs ==
    {B(<<">">>) \o V100 \o Space \o B(<<"!">>) \o V100,
     B(<<">">>) \o V100 \o Space \o OrBar \o Space \o B(<<"<", "=", "1", ".", "0">>),
     B(<<"1", ".", "0">>) \o Space \o B(<<"!">>) \o V100,
     B(<<"!">>) \o V100 \o Space \o B(<<"1", ".", "0">>),
     B(<<">">>),
     B(<<">", "=", "0">>) \o V100,
     B(<<">">>) \o V100 \o Space \o B(<<"|">>) \o Space \o B(<<"<">>) \o V200,
     B(<<"=", ">">>) \o V100,
     B(<<"i", "n", "v", "a", "l", "i", "d">>)}

\* Version strings used as terms without operator: the versions of
\* TestVersionPreReleaseComparison, two more cores, and build metadata.
TermVersions ==
    {PrecedenceChain[k] : k \in 1..Len(PrecedenceChain)}
    \cup {V150, V200, V100 \o B(<<"+", "b", "u", "i", "l", "d">>),
          V100 \o B(<<"-", "r", "c", ".", "1", "+", "b", ".", "1">>)}

\* The forms the documentation of ParseRange lists as valid ranges, each
\* with the operator it stands for.
DocumentedForms ==
    {[text |-> B(<<"<">>) \o V100, op |-> OpLt],
     [text |-> B(<<"<", "=">>) \o V100, op |-> OpLte],
     [text |-> B(<<">">>) \o V100, op |-> OpGt],
     [text |-> B(<<">", "=">>) \o V100, op |-> OpGte],
     [text |-> V100, op |-> OpEq],
     [text |-> B(<<"=">>) \o V100, op |-> OpEq],
     [text |-> B(<<"=", "=">>) \o V100, op |-> OpEq],
     [text |-> B(<<"!">>) \o V100, op |-> OpNeq],
     [text |-> B(<<"!", "=">>) \o V100, op |-> OpNeq]}

\* What the range-text program is run on: one range string, or a version
\* string s followed by "=" + s.
RangeTexts ==
    {<<text>> : text \in ValidRangeInputs \cup BlankPartInputs \cup InvalidRangeInputs
                         \cup BadTokenInputs \cup {f.text : f \in DocumentedForms}}
    \cup {<<s, B(<<"=">>) \o s>> : s \in TermVersions}

\* The versions the range-text program asks Contains about.
TermContainsVersions ==
    ContainsVersions \cup {Parse(InitDefaultParser, s).v : s \in TermVersions}

RangeTextInit ==
    /\ pc = "texts"
    /\ DefaultParser = InitDefaultParser
    /\ parser = NoParser
    /\ input \in RangeTexts
    /\ out = <<>>
    /\ rt = None
    /\ cmp = None
    /\ heap = [reqs |-> <<>>, groups |-> <<>>]
    /\ ranges = <<>>
    /\ last = NoCall
    /\ goroutines = <<>>

\* r, err := ParseRange(input[k]) for the next string of input.  out[k]
\* records the call: r is the index in ranges of the VersionRange returned,
\* 0 for the nil pointer, and groups are the AND-groups it had then.
ParseRangeTextCall ==
    /\ pc = "texts"
    /\ Len(out) < Len(input)
    /\ \E text \in {input[Len(out) + 1]} : \E res \in {ParseRange(DefaultParser, text)} :
          IF res.err # NoError
          THEN /\ out' = Append(out, [op |-> "ParseRange", text |-> text, r |-> 0,
                                      err |-> res.err, groups |-> <<>>])
               /\ UNCHANGED <<heap, ranges>>
          ELSE \E new \in {NewVersionRange(heap, res.requirements)} :
               /\ heap' = new.heap
               /\ ranges' = Append(ranges, new.vr)
               /\ out' = Append(out, [op |-> "ParseRange", text |-> text,
                                      r |-> Len(ranges) + 1, err |-> NoError,
                                      groups |-> Groups(new.heap, new.vr)])
    /\ last' = [op |-> "ParseRange"]
    /\ UNCHANGED <<pc, DefaultParser, parser, input, rt, cmp, goroutines>>

\* ok := ranges[r].Contains(v) on a range ParseRange returned
TextContainsCall ==
    /\ pc = "texts"
    /\ \E r \in 1..Len(ranges), v \in TermContainsVersions :
          last' = [op |-> "Contains", r |-> r, v |-> v,
                   result |-> Contains(heap, ranges[r], v)]
    /\ UNCHANGED <<pc, DefaultParser, parser, input, out, rt, cmp, heap, ranges, goroutines>>

RangeTextNext == ParseRangeTextCall \/ TextContainsCall

RangeTextSpec == RangeTextInit /\ [][RangeTextNext]_vars

\* The parts of a range string between "||" that have a byte other than
\* white space, in order.
NonBlankParts(text) ==
    SelectSeq(SplitOr(text, 1, 1, <<>>), LAMBDA p : \E i \in 1..Len(p) : ~IsSpace(p[i]))

\* A token from its first byte of the class [0-9A-Za-z.+-] on.
VersionPart(token) ==
    LET class == {i \in 1..Len(token) : InVersionClass(token[i])}
    IN IF class = {} THEN <<>>
       ELSE SubSeq(token, CHOOSE i \in class : \A k \in class : i <= k, Len(token))

\* The operator a token starts with, "" when it starts with none.
OperatorPart(token) == SubSeq(token, 1, Len(token) - Len(VersionPart(token)))

\* A token of the term pattern: an optional operator, then a non-empty run
\* of bytes of the class up to the end.
IsTerm(token) ==
    /\ OperatorPart(token) \in {<<>>} \cup {OperatorText[op] : op \in Operators}
    /\ VersionPart(token) # <<>>
    /\ \A i \in 1..Len(VersionPart(token)) : InVersionClass(VersionPart(token)[i])

\* C17: every VersionRange returned by a successful ParseRange contains no
\* empty AND-group.  The parts between "||" that are empty or only white
\* space are skipped; there is one group per other part, in order, and it
\* has one Requirement per token of the part, in order, at least one.
NoEmptyGroup ==
    \A k \in 1..Len(out) :
        (out[k].op = "ParseRange" /\ out[k].err = NoError) =>
            \E parts \in {NonBlankParts(out[k].text)},
               groups \in {Groups(heap, ranges[out[k].r])} :
                /\ Len(groups) = Len(parts)
                /\ \A g \in 1..Len(groups) :
                      \E tokens \in {Fields(parts[g], 1, 0, <<>>)} :
                         /\ Len(groups[g]) >= 1
                         /\ Len(groups[g]) = Len(tokens)
                         /\ \A t \in 1..Len(tokens) :
                               /\ groups[g][t].Ver =
                                     Parse(DefaultParser, VersionPart(tokens[t])).v
                               /\ OperatorPart(tokens[t]) # <<>> =>
                                     OperatorText[groups[g][t].Op] = OperatorPart(tokens[t])

\* ParseRange succeeded on a string with a blank part between two others
\* and returned two groups, one of them of two requirements.
NoEmptyGroupWitness ==
    \E k \in 1..Len(out) :
        /\ out[k].op = "ParseRange"
        /\ out[k].err = NoError
        /\ Len(SplitOr(out[k].text, 1, 1, <<>>)) = 3
        /\ Len(NonBlankParts(out[k].text)) = 2
        /\ \E groups \in {Groups(heap, ranges[out[k].r])} :
              /\ Len(groups) = 2
              /\ Len(groups[2]) = 2

RECURSIVE TokensFrom(_, _)
\* The tokens of parts[i], parts[i+1], ... in order: the runs of bytes other
\* than white space.
TokensFrom(parts, i) ==
    IF i > Len(parts) THEN <<>>
    ELSE Fields(parts[i], 1, 0, <<>>) \o TokensFrom(parts, i + 1)

\* The tokens of a range string that are bad: not of the term pattern, or
\* of it with a version part the parser rejects.
BadTokens(dp, tokens) ==
    {t \in 1..Len(tokens) :
        \/ ~IsTerm(tokens[t])
        \/ Parse(dp, VersionPart(tokens[t])).err # NoError}

NoOperatorMeansEqual ==
    /\ \A r \in 1..Len(ranges) : \E groups \in {Groups(heap, ranges[r])} :
          \A g \in 1..Len(groups) : \A t \in 1..Len(groups[g]) :
             groups[g][t].Op \in {"=", ">", ">=", "<", "<=", "!="}
    /\ \A k \in 1..Len(out) :
          (/\ out[k].op = "ParseRange"
           /\ Parse(DefaultParser, out[k].text).err = NoError) =>
              /\ out[k].err = NoError
              /\ Groups(heap, ranges[out[k].r]) =
                    <<<<[Op |-> "=", Ver |-> Parse(DefaultParser, out[k].text).v]>>>>
              /\ \A v \in TermContainsVersions :
                    Contains(heap, ranges[out[k].r], v) =
                        Equal(v, Parse(DefaultParser, out[k].text).v)
    /\ (Len(out) = 2 /\ Parse(DefaultParser, input[1]).err = NoError) =>
          \A v \in TermContainsVersions :
             Contains(heap, ranges[out[1].r], v) = Contains(heap, ranges[out[2].r], v)
    /\ (/\ last.op = "Contains"
        /\ Parse(DefaultParser, input[1]).err = NoError) =>
          last.result = Equal(last.v, Parse(DefaultParser, input[1]).v)

\* Both s and "=" + s are parsed for a version string s with a pre-release
\* identifier and build metadata, and Contains has answered true for the
\* same version without the build metadata.
NoOperatorMeansEqualWitness ==
    /\ Len(out) = 2
    /\ out[2].text = B(<<"=">>) \o out[1].text
    /\ \E s \in {Parse(DefaultParser, out[1].text)} :
          /\ s.err = NoError
          /\ s.v.PreRelease # <<>>
          /\ s.v.BuildMetadata # <<>>
          /\ last.op = "Contains"
          /\ last.result
          /\ last.v # s.v

----------------------------------------------------------------------------
(* The identifier program: build two PrereleaseVersion values from two      *)
(* strings, then compare them in both directions.                          *)

\* The strings handed to NewPrereleaseVersion: digits, upper and lower case
\* letters, at most MaxIdLen long, the empty string and leading zeros included.
IdInputs == Strings({Byte["0"], Byte["1"], Byte["2"], Byte["A"], Byte["a"]}, MaxIdLen)

IdInit ==
    /\ pc = "start"
    /\ DefaultParser = InitDefaultParser
    /\ parser = NoParser
    /\ input \in {<<x, y>> : x \in IdInputs, y \in IdInputs}
    /\ out = <<>>
    /\ rt = None
    /\ cmp = None
    /\ heap = None
    /\ ranges = <<>>
    /\ last = NoCall
    /\ goroutines = <<>>

\* x, err := NewPrereleaseVersion(input[0]); y, err := NewPrereleaseVersion(input[1])
NewPrereleaseVersionCall ==
    /\ pc = "start"
    /\ out' = <<NewPrereleaseVersion(input[1]), NewPrereleaseVersion(input[2])>>
    /\ last' = [op |-> "NewPrereleaseVersion"]
    /\ pc' = "made"
    /\ UNCHANGED <<DefaultParser, parser, input, rt, cmp, heap, ranges, goroutines>>

\* x.Compare(y), y.Compare(x)
PrereleaseCompareCall ==
    /\ pc = "made"
    /\ out[1].err = NoError /\ out[2].err = NoError
    /\ cmp' = [xy |-> PrereleaseCompare(out[1].pr, out[2].pr),
               yx |-> PrereleaseCompare(out[2].pr, out[1].pr)]
    /\ last' = [op |-> "PrereleaseVersion.Compare"]
    /\ pc' = "compared"
    /\ UNCHANGED <<DefaultParser, parser, input, out, rt, heap, ranges, goroutines>>

IdNext == NewPrereleaseVersionCall \/ PrereleaseCompareCall

IdSpec == IdInit /\ [][IdNext]_vars

\* a comes before b byte by byte: at the first position where they differ a
\* has the lower byte, or a is a proper prefix of b.
ByteWiseBefore(a, b) ==
    \E k \in 1..Len(b) :
        /\ \A i \in 1..(k - 1) : i <= Len(a) /\ a[i] = b[i]
        /\ k > Len(a) \/ a[k] < b[k]

\* -1, 0 or 1 as lower, equal, higher.
Sign(lower, higher) == IF lower THEN -1 ELSE IF higher THEN 1 ELSE 0

\* C11: PrereleaseVersion.Compare orders two identifiers so: a numeric one is
\* always less than a textual one; two numeric ones compare by integer value;
\* two textual ones compare byte-wise in ASCII order; the result is always
\* one of -1, 0, 1.
PrereleaseCompareOrder ==
    pc = "compared" =>
        \E x \in {input[1]}, y \in {input[2]} :
            /\ cmp.xy \in {-1, 0, 1}
            /\ (isNumeric(x) /\ ~isNumeric(y)) => cmp.xy = -1
            /\ (~isNumeric(x) /\ isNumeric(y)) => cmp.xy = 1
            /\ (isNumeric(x) /\ isNumeric(y)) =>
                  cmp.xy = Sign(DecimalValue(x, 0) < DecimalValue(y, 0),
                                DecimalValue(x, 0) > DecimalValue(y, 0))
            /\ (~isNumeric(x) /\ ~isNumeric(y)) =>
                  cmp.xy = Sign(ByteWiseBefore(x, y), ByteWiseBefore(y, x))

\* 2 compared with 11 (lower by value, higher by text), and an upper case
\* letter compared with a lower case one.
PrereleaseCompareOrderWitness ==
    /\ pc = "compared"
    /\ \/ input = <<B(<<"2">>), B(<<"1", "1">>)>> /\ cmp.xy = -1
       \/ input = <<B(<<"A">>), B(<<"a">>)>> /\ cmp.xy = -1

----------------------------------------------------------------------------
(* The must-parse program: hand a string to Parse and then to MustParse,   *)
(* or to ParseRange and then to MustParseRange, the Must call under a      *)
(* recover() that keeps the value it panicked with.                        *)

\* MustParse that hands back what Parse returned, whatever the error.
MustParseNeverPanics(dp, version) ==
    Bind(ParserParse(StrictAdherence(dp), version), LAMBDA r :
        [panicked |-> FALSE, value |-> None, v |-> r.v])

\* MustParse: [panicked, value, v], value being what panic was called with.
MustParse(dp, version) ==
    Bind(ParserParse(StrictAdherence(dp), version), LAMBDA r :
        IF r.err # NoError
        THEN [panicked |-> TRUE, value |-> r.err, v |-> ZeroVersion]
        ELSE [panicked |-> FALSE, value |-> None, v |-> r.v])

\* MustParseRange up to the return: [panicked, value, requirements, err].
MustParseRange(dp, s) ==
    Bind(ParseRange(dp, s), LAMBDA r :
        IF r.err # NoError
        THEN [panicked |-> TRUE, value |-> <<"semver: ParseRange(", s, "): ", r.err>>,
              requirements |-> NilLocal, err |-> r.err]
        ELSE [panicked |-> FALSE, value |-> None, requirements |-> r.requirements,
              err |-> NoError])

\* The strings of the must-parse program: the version inputs, the range
\* strings, and "invalid" of TestMustParse.
MustInputs ==
    ParseInputs \cup {t[1] : t \in RangeTexts}

MustInit ==
    /\ pc = "start"
    /\ DefaultParser = InitDefaultParser
    /\ parser = NoParser
    /\ input \in {<<s>> : s \in MustInputs}
    /\ out = <<>>
    /\ rt = None
    /\ cmp = None
    /\ heap = [reqs |-> <<>>, groups |-> <<>>]
    /\ ranges = <<>>
    /\ last = NoCall
    /\ goroutines = <<>>

\* v, err := Parse(input); w := MustParse(input) under recover()
MustParseCall ==
    /\ pc = "start"
    /\ out' = <<Parse(DefaultParser, input[1]), MustParse(DefaultParser, input[1])>>
    /\ last' = [op |-> "MustParse"]
    /\ pc' = "version"
    /\ UNCHANGED <<DefaultParser, parser, input, rt, cmp, heap, ranges, goroutines>>

\* r, err := ParseRange(input); q := MustParseRange(input) under recover().
\* out[1] and out[2] record the two calls with the index in ranges of the
\* VersionRange returned, 0 for nil or none.
MustParseRangeCall ==
    /\ pc = "start"
    /\ \E res \in {ParseRange(DefaultParser, input[1])},
          must \in {MustParseRange(DefaultParser, input[1])} :
          IF res.err # NoError \/ must.panicked
          THEN /\ out' = <<[err |-> res.err, r |-> 0],
                           [panicked |-> must.panicked, value |-> must.value, r |-> 0]>>
               /\ UNCHANGED <<heap, ranges>>
          ELSE \E r \in {NewVersionRange(heap, res.requirements)} :
               \E q \in {NewVersionRange(r.heap, must.requirements)} :
                  /\ heap' = q.heap
                  /\ ranges' = <<r.vr, q.vr>>
                  /\ out' = <<[err |-> NoError, r |-> 1],
                              [panicked |-> FALSE, value |-> None, r |-> 2]>>
    /\ last' = [op |-> "MustParseRange"]
    /\ pc' = "range"
    /\ UNCHANGED <<DefaultParser, parser, input, rt, cmp, goroutines>>

MustNext == MustParseCall \/ MustParseRangeCall

MustSpec == MustInit /\ [][MustNext]_vars

\* C21: MustParse(s) panics exactly when Parse(s) returns an error, and
\* otherwise returns the same Version as Parse(s); MustParseRange(s) panics
\* exactly when ParseRange(s) returns an error; Parse and ParseRange
\* themselves return, with a Version or range or with an error, on every
\* input, the invalid ones included.
MustPanicsExactlyOnError ==
    /\ pc = "version" =>
          /\ out[1].err \in {NoError, ErrEmptyVersionString, ErrMissingVersionElements,
                             ErrInvalidNumericIdentifier, ErrLeadingZeroInNumericIdentifier,
                             ErrInvalidCharacterInIdentifier, ErrInvalidPrereleaseIdentifier,
                             ErrEmptyPrereleaseIdentifier, ErrEmptyBuildMetadata,
                             ErrInvalidBuildMetadataIdentifier, ErrUnexpectedCharacter,
                             ErrUnexpectedEndOfInput, ErrEmptyPrerelease,
                             ErrLeadingZeroInNumeric, ErrInvalidPrereleaseChars, ErrRange}
          /\ out[2].panicked <=> out[1].err # NoError
          /\ out[2].panicked => out[2].value = out[1].err
          /\ ~out[2].panicked => out[2].v = out[1].v
    /\ pc = "range" =>
          /\ out[1].err \in {NoError, "invalid range token", "invalid version in range"}
          /\ out[2].panicked <=> out[1].err # NoError
          /\ out[1].err # NoError <=> out[1].r = 0
          /\ ~out[2].panicked =>
                Groups(heap, ranges[out[2].r]) = Groups(heap, ranges[out[1].r])

\* MustParse("invalid") of TestMustParse has panicked with the error Parse
\* returns for it, or MustParseRange has panicked on a string with a bad
\* token after a good one.
MustPanicsExactlyOnErrorWitness ==
    \/ /\ pc = "version"
       /\ input[1] = B(<<"i", "n", "v", "a", "l", "i", "d">>)
       /\ out[2].panicked
       /\ out[2].value = ErrInvalidNumericIdentifier
    \/ /\ pc = "range"
       /\ input[1] = B(<<">">>) \o V100 \o Space \o B(<<"!">>) \o V100
       /\ out[2].panicked

----------------------------------------------------------------------------
(* The session program: after package initialization, any sequence of      *)
(* Parse, MustParse, ParseRange and NewParser calls and of Parse calls on  *)
(* the parsers built.  A parser is a pointer to a struct whose config      *)
(* field points to a runtimeConfig: here heap.configs holds the            *)
(* runtimeConfig values, DefaultParser and the elements of parser hold the *)
(* index of theirs, and out[k] records the options parser[k] was built     *)
(* with.                                                                   *)

\* Most parsers the session program builds.
MaxParsers == 2

\* NewParser writing the configuration into the runtimeConfig allocated
\* first, that of the default parser, and handing that one back.
NewParserSharedConfig(configs, options) ==
    IF configs = <<>>
    THEN [configs |-> <<NewParser(options).config>>, parser |-> [config |-> 1]]
    ELSE [configs |-> [configs EXCEPT ![1] = NewParser(options).config],
          parser |-> [config |-> 1]]

\* NewParser(options...) on the heap: buildRuntimeConfig allocates a new
\* runtimeConfig and the parser returned points to it.
NewParserOnHeap(configs, options) ==
    [configs |-> Append(configs, NewParser(options).config),
     parser |-> [config |-> Len(configs) + 1]]

\* The parser p points to, with its runtimeConfig read from the heap.
Deref(configs, p) == [config |-> configs[p.config]]

\* The version strings of the session program: accepted, with a leading
\* zero in the core and in an identifier, and "invalid".
SessionVersions ==
    {B(<<"1", ".", "0", ".", "0">>),
     B(<<"0", "1", ".", "0", ".", "0">>),
     B(<<"1", ".", "0", ".", "0", "-", "0", "1">>),
     B(<<"i", "n", "v", "a", "l", "i", "d">>)}

\* The range strings of the session program.
SessionRanges ==
    {B(<<">", "1", ".", "0", ".", "0">>), B(<<">", "=", "0", "1", ".", "0", ".", "0">>)}

\* The state after init(): DefaultParser, err = NewParser().
SessionInit ==
    /\ pc = "session"
    /\ \E init \in {NewParserOnHeap(<<>>, <<>>)} :
          /\ DefaultParser = init.parser
          /\ heap = [configs |-> init.configs]
    /\ parser = <<>>
    /\ input = <<>>
    /\ out = <<>>
    /\ rt = None
    /\ cmp = None
    /\ ranges = <<>>
    /\ last = NoCall
    /\ goroutines = <<>>

\* p, err := NewParser(), NewParser(WithStrictAdherence(value))
SessionNewParserCall ==
    /\ pc = "session"
    /\ Len(parser) < MaxParsers
    /\ \E options \in {<<>>} \cup {<<WithStrictAdherence(b)>> : b \in BOOLEAN} :
       \E new \in {NewParserOnHeap(heap.configs, options)} :
          /\ heap' = [heap EXCEPT !.configs = new.configs]
          /\ parser' = Append(parser, new.parser)
          /\ out' = Append(out, [options |-> options])
          /\ last' = [op |-> "NewParser", p |-> Len(parser) + 1]
    /\ UNCHANGED <<pc, DefaultParser, input, rt, cmp, ranges, goroutines>>

\* v, err := Parse(s)
SessionParseCall ==
    /\ pc = "session"
    /\ \E s \in SessionVersions :
          last' = [op |-> "Parse", text |-> s,
                   result |-> Parse(Deref(heap.configs, DefaultParser), s)]
    /\ UNCHANGED <<pc, DefaultParser, parser, input, out, rt, cmp, heap, ranges, goroutines>>

\* v := MustParse(s) under recover()
SessionMustParseCall ==
    /\ pc = "session"
    /\ \E s \in SessionVersions :
          last' = [op |-> "MustParse", text |-> s,
                   result |-> MustParse(Deref(heap.configs, DefaultParser), s)]
    /\ UNCHANGED <<pc, DefaultParser, parser, input, out, rt, cmp, heap, ranges, goroutines>>

\* _, err := ParseRange(s)
SessionParseRangeCall ==
    /\ pc = "session"
    /\ \E s \in SessionRanges :
          last' = [op |-> "ParseRange", text |-> s,
                   err |-> ParseRange(Deref(heap.configs, DefaultParser), s).err]
    /\ UNCHANGED <<pc, DefaultParser, parser, input, out, rt, cmp, heap, ranges, goroutines>>

\* v, err := p.Parse(s) on a parser built earlier
SessionParserParseCall ==
    /\ pc = "session"
    /\ \E p \in 1..Len(parser), s \in SessionVersions :
          last' = [op |-> "parser.Parse", p |-> p, text |-> s,
                   result |-> ParserParse(StrictAdherence(Deref(heap.configs, parser[p])), s)]
    /\ UNCHANGED <<pc, DefaultParser, parser, input, out, rt, cmp, heap, ranges, goroutines>>

SessionNext ==
    SessionNewParserCall \/ SessionParseCall \/ SessionMustParseCall
        \/ SessionParseRangeCall \/ SessionParserParseCall

SessionSpec == SessionInit /\ [][SessionNext]_vars

\* C22: the shared default parser is strict and read-only.  NewParser()
\* without options yields strict = true, and across any sequence of Parse,
\* MustParse, ParseRange, NewParser and parser.Parse calls the strict flag
\* of the default parser and of every parser built keeps the value it had
\* at construction.
DefaultParserStrictReadOnly ==
    /\ StrictAdherence(NewParser(<<>>))
    /\ StrictAdherence(Deref(heap.configs, DefaultParser))
    /\ \A k \in 1..Len(parser) :
          StrictAdherence(Deref(heap.configs, parser[k])) =
              (IF out[k].options = <<>> THEN TRUE ELSE out[k].options[1].value)

\* A parser built with WithStrictAdherence(false) before a second one built
\* with WithStrictAdherence(true) has just parsed a string, after the
\* second was built.
DefaultParserStrictReadOnlyWitness ==
    /\ Len(parser) = 2
    /\ out[1].options = <<WithStrictAdherence(FALSE)>>
    /\ out[2].options = <<WithStrictAdherence(TRUE)>>
    /\ last.op = "parser.Parse"
    /\ last.p = 1
    /\ last.result.err # NoError

----------------------------------------------------------------------------
(* Sort and Reverse.  A []*Version is a sequence of pointers, here indices *)
(* into heap.versions; positions in the slice are counted from 1.  For a   *)
(* slice of at most 12 elements sort.Sort is the insertion sort of the     *)
(* standard library: for i := a+1; i < b; i++ { for j := i; j > a &&       *)
(* data.Less(j, j-1); j-- { data.Swap(j, j-1) } }.                         *)

\* Versions.Less the other way round: s[j] before s[i].
VersionsLessSwapped(versions, s, i, j) == LessThan(versions[s[j]], versions[s[i]])

\* Versions.Less
VersionsLess(versions, s, i, j) == LessThan(versions[s[i]], versions[s[j]])

\* Versions.Swap
VersionsSwap(s, i, j) == [s EXCEPT ![i] = s[j], ![j] = s[i]]

\* data.Less(i, j) of sort.Sort: Versions.Less, or for sort.Reverse(data)
\* the Less of data with the indices exchanged.
DataLess(versions, s, i, j, reverse) ==
    IF reverse THEN VersionsLess(versions, s, j, i) ELSE VersionsLess(versions, s, i, j)

RECURSIVE InsertionInner(_, _, _, _)
\* The inner loop of the insertion sort from position j.
InsertionInner(versions, s, j, reverse) ==
    IF j > 1 /\ DataLess(versions, s, j, j - 1, reverse)
    THEN InsertionInner(versions, VersionsSwap(s, j, j - 1), j - 1, reverse)
    ELSE s

RECURSIVE InsertionOuter(_, _, _, _)
\* The outer loop of the insertion sort from position i.
InsertionOuter(versions, s, i, reverse) ==
    IF i > Len(s) THEN s
    ELSE InsertionOuter(versions, InsertionInner(versions, s, i, reverse), i + 1, reverse)

\* Sort(versions): the slice afterwards.
Sort(versions, s) == InsertionOuter(versions, s, 2, FALSE)

\* Reverse(versions): the slice afterwards.
Reverse(versions, s) == InsertionOuter(versions, s, 2, TRUE)

----------------------------------------------------------------------------
(* The sorting program: parse some version strings, take the addresses of  *)
(* the Versions into a slice, then call Sort and Reverse on it any number  *)
(* of times.                                                               *)

\* Most versions in the slice that is sorted.
MaxSortLen == 3

\* The version strings sorted: versions of TestSortVersions that parse,
\* two of them equal in precedence, and a numeric identifier above 9.
SortInputs ==
    {B(<<"1", ".", "0", ".", "0">>),
     B(<<"1", ".", "0", ".", "0", "+", "b", "u", "i", "l", "d", ".", "1">>),
     B(<<"1", ".", "0", ".", "0", "-", "a", "l", "p", "h", "a">>),
     B(<<"1", ".", "0", ".", "0", "-", "a", "l", "p", "h", "a", ".", "1">>),
     B(<<"1", ".", "0", ".", "0", "-", "a", "l", "p", "h", "a", ".", "1", "1">>),
     B(<<"0", ".", "1", ".", "0">>)}

SortInit ==
    /\ pc = "start"
    /\ DefaultParser = InitDefaultParser
    /\ parser = NoParser
    /\ input \in UNION {[1..n -> SortInputs] : n \in 0..MaxSortLen}
    /\ out = <<>>
    /\ rt = None
    /\ cmp = None
    /\ heap = [versions |-> <<>>]
    /\ ranges = <<>>
    /\ last = NoCall
    /\ goroutines = <<>>

\* for _, vs := range input { v := MustParse(vs); versions = append(versions, &v) }
\* out is the slice versions.
AppendVersionsCall ==
    /\ pc = "start"
    /\ heap' = [versions |-> [k \in 1..Len(input) |-> MustParse(DefaultParser, input[k]).v]]
    /\ out' = [k \in 1..Len(input) |-> k]
    /\ last' = [op |-> "append"]
    /\ pc' = "slice"
    /\ UNCHANGED <<DefaultParser, parser, input, rt, cmp, ranges, goroutines>>

\* Sort(versions); last keeps the slice as it was before the call.
SortCall ==
    /\ pc = "slice"
    /\ out' = Sort(heap.versions, out)
    /\ last' = [op |-> "Sort", before |-> out]
    /\ UNCHANGED <<pc, DefaultParser, parser, input, rt, cmp, heap, ranges, goroutines>>

\* Reverse(versions)
ReverseCall ==
    /\ pc = "slice"
    /\ out' = Reverse(heap.versions, out)
    /\ last' = [op |-> "Reverse", before |-> out]
    /\ UNCHANGED <<pc, DefaultParser, parser, input, rt, cmp, heap, ranges, goroutines>>

SortNext == AppendVersionsCall \/ SortCall \/ ReverseCall

SortSpec == SortInit /\ [][SortNext]_vars

\* C23: Sort rearranges a slice of versions into a permutation of its input
\* in non-decreasing precedence order (for all i < j, not
\* versions[j].LessThan(versions[i])), and Reverse into a permutation in
\* non-increasing precedence order; neither adds, drops or alters an
\* element.
SortIsOrderedPermutation ==
    last.op \in {"Sort", "Reverse"} =>
        /\ Len(out) = Len(last.before)
        /\ \A p \in 1..Len(heap.versions) :
              Cardinality({k \in 1..Len(out) : out[k] = p})
                  = Cardinality({k \in 1..Len(last.before) : last.before[k] = p})
        /\ \A k \in 1..Len(input) :
              heap.versions[k] = Parse(DefaultParser, input[k]).v
        /\ \A i \in 1..Len(out), j \in 1..Len(out) :
              i < j =>
                 IF last.op = "Sort"
                 THEN ~LessThan(heap.versions[out[j]], heap.versions[out[i]])
                 ELSE ~LessThan(heap.versions[out[i]], heap.versions[out[j]])

\* Sort has moved the last of three versions to the front and left two of
\* equal precedence next to each other.
SortIsOrderedPermutationWitness ==
    /\ last.op = "Sort"
    /\ Len(out) = 3
    /\ out[1] = last.before[3]
    /\ Equal(heap.versions[out[2]], heap.versions[out[3]])
    /\ heap.versions[out[2]] # heap.versions[out[3]]

----------------------------------------------------------------------------
(* The range forms of ParseRange's documentation *)

\* C24: ParseRange accepts every range form its documentation lists as
\* valid: "<1.0.0", "<=1.0.0", ">1.0.0", ">=1.0.0", "1.0.0", "=1.0.0",
\* "==1.0.0", "!1.0.0" and "!=1.0.0", with "==" meaning equal and "!"
\* meaning not equal.
DocumentedFormsAccepted ==
    \A k \in 1..Len(out) : \A f \in DocumentedForms :
        (out[k].op = "ParseRange" /\ out[k].text = f.text) =>
            /\ out[k].err = NoError
            /\ \A v \in TermContainsVersions :
                  Contains(heap, ranges[out[k].r], v)
                      = Satisfied([Op |-> f.op, Ver |-> Parse(DefaultParser, V100).v], v)

----------------------------------------------------------------------------
(* Errors of the parsing program by the place they are found at *)

\* p is m digit runs without leading zero, each followed by a dot.
IsRunsPrefix(p, m) ==
    CASE m = 0 -> p = <<>>
      [] m = 1 -> /\ Len(p) >= 2
                  /\ p[Len(p)] = 46
                  /\ IsNumericComponent(SubSeq(p, 1, Len(p) - 1))
      [] m = 2 -> \E i \in 2..(Len(p) - 2) :
                     /\ p[i] = 46
                     /\ p[Len(p)] = 46
                     /\ IsNumericComponent(SubSeq(p, 1, i - 1))
                     /\ IsNumericComponent(SubSeq(p, i + 1, Len(p) - 1))

\* The digit run at the place of major, minor or patch is empty: after no,
\* one or two good runs with their dots comes the end of s or a byte that
\* is not a digit.
EmptyDigitRun(s) ==
    \E n \in 0..Len(s) : \E m \in 0..2 :
        /\ IsRunsPrefix(SubSeq(s, 1, n), m)
        /\ n = Len(s) \/ s[n + 1] \notin 48..57

\* C25: for a non-empty input, an empty digit run at the place of major,
\* minor or patch makes Parse fail with ErrInvalidNumericIdentifier,
\* wherever the run is empty: at the start (".0.0", "v1.0.0"), between two
\* dots ("1..0") and at the end of the input after the second dot ("1.0.").
EmptyDigitRunError ==
    (pc = "parsed" /\ input[1] # <<>> /\ EmptyDigitRun(input[1])) =>
        out[1].err = ErrInvalidNumericIdentifier


\* s split on dots has an empty part.
EmptyPartIn(s) ==
    \/ s = <<>>
    \/ s[1] = 46
    \/ s[Len(s)] = 46
    \/ \E i \in 1..(Len(s) - 1) : s[i] = 46 /\ s[i + 1] = 46

\* s has a byte that is neither a dot nor one of [0-9A-Za-z-].
BadByteIn(s) == \E i \in 1..Len(s) : s[i] # 46 /\ ~isAllowedInIdentifier(s[i])

\* C26: when what stands before the first '+' of the input is a version
\* that parses, the bytes after that '+' are the build metadata: an empty
\* dot-separated part in it makes Parse fail with ErrEmptyBuildMetadata, and
\* a part with a byte outside [0-9A-Za-z-] (a '!', a second '+') makes Parse
\* fail with ErrInvalidBuildMetadataIdentifier.
BuildMetadataErrors ==
    pc = "parsed" =>
        \A k \in 1..Len(input[1]) :
            (/\ input[1][k] = 43
             /\ \A j \in 1..(k - 1) : input[1][j] # 43
             /\ ParserParse(StrictUsed, SubSeq(input[1], 1, k - 1)).err = NoError) =>
                \E build \in {SubSeq(input[1], k + 1, Len(input[1]))} :
                    /\ (EmptyPartIn(build) /\ ~BadByteIn(build)) =>
                           out[1].err = ErrEmptyBuildMetadata
                    /\ (~EmptyPartIn(build) /\ BadByteIn(build)) =>
                           out[1].err = ErrInvalidBuildMetadataIdentifier

\* Every byte of s is a dot or one of [0-9A-Za-z-].
AllowedAndDots(s) == \A i \in 1..Len(s) : s[i] = 46 \/ isAllowedInIdentifier(s[i])

\* The pre-release segment of the input when major.minor.patch before it
\* parse and a '-' follows them: the bytes after that '-' up to the first
\* '+' or the end: [present, seg], present false when the input is not of
\* that form.
PrereleaseSegment(s) ==
    IF \E k \in 1..Len(s) :
           /\ s[k] = 45
           /\ \A j \in 1..(k - 1) : s[j] # 45
           /\ ParserParse(TRUE, SubSeq(s, 1, k - 1)).err = NoError
    THEN LET k == CHOOSE k \in 1..Len(s) : s[k] = 45 /\ \A j \in 1..(k - 1) : s[j] # 45
             e == IF \E j \in (k + 1)..Len(s) : s[j] = 43
                  THEN CHOOSE j \in (k + 1)..Len(s) :
                           s[j] = 43 /\ \A i \in (k + 1)..(j - 1) : s[i] # 43
                  ELSE Len(s) + 1
         IN [present |-> TRUE, seg |-> SubSeq(s, k + 1, e - 1)]
    ELSE [present |-> FALSE, seg |-> <<>>]

\* C27: when the pre-release segment has only allowed characters and dots,
\* an empty part in it (an empty segment, a leading dot, a trailing dot, two
\* adjacent dots) makes Parse fail with ErrEmptyPrereleaseIdentifier.
EmptyPrereleasePartError ==
    pc = "parsed" =>
        \E p \in {PrereleaseSegment(input[1])} :
            (/\ p.present
             /\ AllowedAndDots(p.seg)
             /\ EmptyPartIn(p.seg)) =>
                out[1].err = ErrEmptyPrereleaseIdentifier

----------------------------------------------------------------------------
(* The literal program: a VersionRange written as a composite literal,     *)
(* r := &VersionRange{Requirements: [][]Requirement{g1, ..., gn}}, with    *)
(* groups that may be empty, then r.Contains(v).                           *)

\* The number of groups of a literal.
MaxLiteralGroups == 3

\* The groups a literal is written from: the empty one, one that holds only
\* 1.0.0, one that holds 1.5.0 and 2.0.0, one that holds only 2.5.0.
LiteralGroups ==
    Bind([s \in {V100, V150, V200, V250} |-> Parse(InitDefaultParser, s).v], LAMBDA ver :
        {<<>>,
         <<[Op |-> OpEq, Ver |-> ver[V100]]>>,
         <<[Op |-> OpGte, Ver |-> ver[V150]], [Op |-> OpLt, Ver |-> ver[V250]]>>,
         <<[Op |-> OpGt, Ver |-> ver[V200]]>>})

\* The group lists of the literals, the empty list included.
LiteralRequirements ==
    UNION {[1..n -> LiteralGroups] : n \in 0..MaxLiteralGroups}

\* A slice literal as a local slice: its capacity is its length.
SliceLiteral(elems) == [elems |-> elems, cap |-> Len(elems)]

LiteralInit ==
    /\ pc = "literal"
    /\ DefaultParser = InitDefaultParser
    /\ parser = NoParser
    /\ input = <<>>
    /\ out = <<>>
    /\ rt = None
    /\ cmp = None
    /\ heap = [reqs |-> <<>>, groups |-> <<>>]
    /\ ranges = <<>>
    /\ last = NoCall
    /\ goroutines = <<>>

\* r := &VersionRange{Requirements: [][]Requirement{...}}
RangeLiteral ==
    /\ pc = "literal"
    /\ \E groups \in LiteralRequirements :
          \E new \in {NewVersionRange(heap,
                         SliceLiteral([g \in 1..Len(groups) |-> SliceLiteral(groups[g])]))} :
             /\ heap' = new.heap
             /\ ranges' = <<new.vr>>
             /\ out' = <<[op |-> "literal", groups |-> groups]>>
             /\ last' = [op |-> "literal"]
    /\ pc' = "built"
    /\ UNCHANGED <<DefaultParser, parser, input, rt, cmp, goroutines>>

\* ok := r.Contains(v)
LiteralContainsCall ==
    /\ pc = "built"
    /\ \E v \in ContainsVersions :
          last' = [op |-> "Contains", r |-> 1, v |-> v,
                   result |-> Contains(heap, ranges[1], v)]
    /\ UNCHANGED <<pc, DefaultParser, parser, input, out, rt, cmp, heap, ranges, goroutines>>

LiteralNext == RangeLiteral \/ LiteralContainsCall

LiteralSpec == LiteralInit /\ [][LiteralNext]_vars

\* C28: a VersionRange that holds an empty AND-group contains every version,
\* whatever its other groups are.
EmptyGroupContainsAll ==
    (/\ pc = "built"
     /\ last.op = "Contains"
     /\ \E g \in 1..Len(out[1].groups) : out[1].groups[g] = <<>>) =>
        last.result = TRUE

\* Contains answered true for 1.0.0 on a literal of three groups whose first
\* is ">2.0.0" alone, whose second is empty and whose third does not hold
\* 1.0.0 either.
EmptyGroupContainsAllWitness ==
    /\ pc = "built"
    /\ last.op = "Contains"
    /\ last.v = Parse(InitDefaultParser, V100).v
    /\ Len(out[1].groups) = 3
    /\ out[1].groups[1] = <<[Op |-> OpGt, Ver |-> Parse(InitDefaultParser, V200).v]>>
    /\ out[1].groups[2] = <<>>
    /\ Len(out[1].groups[3]) = 2
    /\ Groups(heap, ranges[1]) = out[1].groups
    /\ last.result = TRUE

RECURSIVE RunEnd(_, _)
\* The index after the digits of s that start at index i.
RunEnd(s, i) == IF i <= Len(s) /\ s[i] \in 48..57 THEN RunEnd(s, i + 1) ELSE i

\* The digit runs at the places of major, minor and patch of s, each taken
\* up to the first byte that is not a digit, the later ones after a dot; a
\* place that is not reached has the empty run.
CoreRuns(s) ==
    Bind(RunEnd(s, 1), LAMBDA e1 :
    Bind(IF e1 <= Len(s) /\ s[e1] = 46 THEN RunEnd(s, e1 + 1) ELSE e1, LAMBDA e2 :
    Bind(IF e2 > e1 /\ e2 <= Len(s) /\ s[e2] = 46 THEN RunEnd(s, e2 + 1) ELSE e2, LAMBDA e3 :
        <<SubSeq(s, 1, e1 - 1), SubSeq(s, e1 + 1, e2 - 1), SubSeq(s, e2 + 1, e3 - 1)>>)))

\* C29: Parse never returns a Version whose major, minor or patch differs
\* from the decimal value of its digit run: a run that denotes a value above
\* 2^64-1 makes Parse fail, it is not stored reduced modulo 2^64.
NoWrappedNumber ==
    (pc = "parsed" /\ out[1].err = NoError) =>
        \E runs \in {CoreRuns(input[1])} :
            /\ \A k \in 1..3 : ~OutOfRange(runs[k], ZeroUint64)
            /\ out[1].v.Major = DecimalValue(runs[1], 0)
            /\ out[1].v.Minor = DecimalValue(runs[2], 0)
            /\ out[1].v.Patch = DecimalValue(runs[3], 0)

----------------------------------------------------------------------------
(* Decoding: UnmarshalText, UnmarshalBinary, UnmarshalJSON and Scan.  Each *)
(* has the pointer receiver v; the operators take the Version it points to *)
(* and give the Version it points to afterwards with the error returned.   *)

ErrUnsupportedType == "ErrUnsupportedType"
\* The error json.Unmarshal returns, a *json.SyntaxError or a
\* *json.UnmarshalTypeError.
ErrJSON == "json.Unmarshal error"

\* Version.UnmarshalText with *v = parsed ahead of the test of err.
UnmarshalTextAssignsFirst(dp, v, text) ==
    Bind(Parse(dp, text), LAMBDA parsed : [v |-> parsed.v, err |-> parsed.err])

\* Version.UnmarshalText
UnmarshalText(dp, v, text) ==
    Bind(Parse(dp, text), LAMBDA parsed :
        IF parsed.err # NoError THEN [v |-> v, err |-> parsed.err]
        ELSE [v |-> parsed.v, err |-> NoError])

\* Version.UnmarshalBinary
UnmarshalBinary(dp, v, data) == UnmarshalText(dp, v, data)

\* The white space of JSON.
JSONSpace(ch) == ch \in {32, 9, 10, 13}

RECURSIVE SkipJSONSpace(_, _)
\* The first position from i on that holds no white space.
SkipJSONSpace(data, i) ==
    IF i <= Len(data) /\ JSONSpace(data[i]) THEN SkipJSONSpace(data, i + 1) ELSE i

\* The value of a hexadecimal digit, -1 for another byte.
HexValue(ch) ==
    IF ch \in 48..57 THEN ch - 48
    ELSE IF ch \in 65..70 THEN ch - 55
    ELSE IF ch \in 97..102 THEN ch - 87
    ELSE -1

\* The code unit of the escape \uXXXX whose backslash is at position i, -1
\* when four hexadecimal digits do not follow.
CodeUnit(data, i) ==
    IF i + 5 > Len(data) \/ data[i] # 92 \/ data[i + 1] # 117 THEN -1
    ELSE IF \E k \in 2..5 : HexValue(data[i + k]) < 0 THEN -1
    ELSE HexValue(data[i + 2]) * 4096 + HexValue(data[i + 3]) * 256
         + HexValue(data[i + 4]) * 16 + HexValue(data[i + 5])

\* The UTF-8 bytes of code point r.
EncodeRune(r) ==
    IF r < 128 THEN <<r>>
    ELSE IF r < 2048 THEN <<192 + (r \div 64), 128 + (r % 64)>>
    ELSE IF r < 65536
    THEN <<224 + (r \div 4096), 128 + ((r \div 64) % 64), 128 + (r % 64)>>
    ELSE <<240 + (r \div 262144), 128 + ((r \div 4096) % 64),
           128 + ((r \div 64) % 64), 128 + (r % 64)>>

\* The bytes the escapes of one letter stand for: \" \\ \/ \b \f \n \r \t.
SimpleEscape ==
    (34 :> 34) @@ (92 :> 92) @@ (47 :> 47) @@ (98 :> 8) @@ (102 :> 12) @@
    (110 :> 10) @@ (114 :> 13) @@ (116 :> 9)

RECURSIVE UnquoteFrom(_, _, _)
\* A JSON string literal of ASCII data read from position i, after its
\* opening quote, up to its closing quote: [ok, text, next].
UnquoteFrom(data, i, text) ==
    IF i > Len(data) THEN [ok |-> FALSE, text |-> <<>>, next |-> i]
    ELSE IF data[i] = 34 THEN [ok |-> TRUE, text |-> text, next |-> i + 1]
    ELSE IF data[i] < 32 THEN [ok |-> FALSE, text |-> <<>>, next |-> i]
    ELSE IF data[i] # 92 THEN UnquoteFrom(data, i + 1, Append(text, data[i]))
    ELSE IF i + 1 > Len(data) THEN [ok |-> FALSE, text |-> <<>>, next |-> i]
    ELSE IF data[i + 1] \in DOMAIN SimpleEscape
    THEN UnquoteFrom(data, i + 2, Append(text, SimpleEscape[data[i + 1]]))
    ELSE Bind(CodeUnit(data, i), LAMBDA u :
        IF u < 0 THEN [ok |-> FALSE, text |-> <<>>, next |-> i]
        ELSE IF u < 55296 \/ u > 57343
        THEN UnquoteFrom(data, i + 6, text \o EncodeRune(u))
        ELSE Bind(CodeUnit(data, i + 6), LAMBDA low :
            IF u < 56320 /\ low >= 56320 /\ low <= 57343
            THEN UnquoteFrom(data, i + 12,
                     text \o EncodeRune(65536 + (u - 55296) * 1024 + (low - 56320)))
            ELSE UnquoteFrom(data, i + 6, text \o EncodeRune(65533))))

\* json.Unmarshal(data, &text) for a string text: [text, err].  A string
\* literal alone sets text, null alone leaves it, and everything else is an
\* error: a value of another kind when the data is valid JSON and a syntax
\* error when it is not.
JSONUnmarshalString(data, text) ==
    Bind(SkipJSONSpace(data, 1), LAMBDA i :
        IF i > Len(data) THEN [text |-> text, err |-> ErrJSON]
        ELSE IF data[i] = 34 THEN
            Bind(UnquoteFrom(data, i + 1, <<>>), LAMBDA lit :
                IF lit.ok /\ SkipJSONSpace(data, lit.next) > Len(data)
                THEN [text |-> lit.text, err |-> NoError]
                ELSE [text |-> text, err |-> ErrJSON])
        ELSE IF /\ i + 3 <= Len(data)
                /\ SubSeq(data, i, i + 3) = <<110, 117, 108, 108>>
                /\ SkipJSONSpace(data, i + 4) > Len(data)
        THEN [text |-> text, err |-> NoError]
        ELSE [text |-> text, err |-> ErrJSON])

\* Version.UnmarshalJSON
UnmarshalJSON(dp, v, data) ==
    Bind(JSONUnmarshalString(data, <<>>), LAMBDA dec :
        IF dec.err # NoError THEN [v |-> v, err |-> dec.err]
        ELSE UnmarshalText(dp, v, dec.text))

\* Version.Scan: value is [type, val], the dynamic type and the value of the
\* interface; the cases string and []byte both hand the bytes of the value
\* to UnmarshalText.
Scan(dp, v, value) ==
    IF value.type \in {"string", "[]byte"} THEN UnmarshalText(dp, v, value.val)
    ELSE [v |-> v, err |-> ErrUnsupportedType]

----------------------------------------------------------------------------
(* The decoding program: var v Version or v := MustParse(...), then any    *)
(* number of v.UnmarshalText, v.UnmarshalBinary, v.UnmarshalJSON and       *)
(* v.Scan calls.  out[1] is the Version v holds; last records the call,    *)
(* the version text its argument carries, whether the argument is of a     *)
(* supported type and well-formed JSON, the error returned and the value   *)
(* v held before the call.                                                 *)

\* The values v starts with.
DecodeReceivers ==
    {ZeroVersion} \cup
    {Parse(InitDefaultParser, s).v :
        s \in {B(<<"1", ".", "2", ".", "3", "-", "a", ".", "1", "+", "b">>), V200}}

\* The texts handed to UnmarshalText, UnmarshalBinary and Scan.
DecodeTexts ==
    {V100,
     B(<<"1", ".", "2", ".", "3", "-", "b", "e", "t", "a">>),
     B(<<"1", ".", "2", ".", "3", "+", "b", ".", "1">>),
     <<>>,
     B(<<"i", "n", "v", "a", "l", "i", "d">>),
     B(<<"1", ".", "0">>),
     B(<<"1", ".", "0", ".", "0", "-">>)}

\* s between double quotes.
Quoted(s) == <<34>> \o s \o <<34>>

\* The data handed to UnmarshalJSON, each with the text json.Unmarshal
\* stores for it and whether json.Unmarshal accepts it.
DecodeJSONInputs ==
    {[data |-> Quoted(V100), text |-> V100, valid |-> TRUE],
     [data |-> <<32>> \o Quoted(B(<<"1", ".", "2", ".", "3", "-", "b", "e", "t", "a">>))
                \o <<10>>,
      text |-> B(<<"1", ".", "2", ".", "3", "-", "b", "e", "t", "a">>), valid |-> TRUE],
     [data |-> Quoted(B(<<"1">>) \o <<92, 117, 48, 48, 50, 101>> \o B(<<"0", ".", "0">>)),
      text |-> V100, valid |-> TRUE],
     [data |-> Quoted(B(<<"1", ".", "0">>)), text |-> B(<<"1", ".", "0">>), valid |-> TRUE],
     [data |-> Quoted(<<>>), text |-> <<>>, valid |-> TRUE],
     [data |-> B(<<"n", "u", "l", "l">>), text |-> <<>>, valid |-> TRUE],
     [data |-> <<34>> \o V100, text |-> <<>>, valid |-> FALSE],
     [data |-> <<34>> \o V100 \o <<92, 34>>, text |-> <<>>, valid |-> FALSE],
     [data |-> Quoted(V100) \o B(<<"1">>), text |-> <<>>, valid |-> FALSE],
     [data |-> V100, text |-> <<>>, valid |-> FALSE],
     [data |-> B(<<"1", "2", "3">>), text |-> <<>>, valid |-> FALSE],
     [data |-> <<123, 125>>, text |-> <<>>, valid |-> FALSE],
     [data |-> <<>>, text |-> <<>>, valid |-> FALSE]}

\* The values handed to Scan: strings, byte slices, and values of other
\* types (the int of TestVersionScan, nil, a float64).
ScanValues ==
    {[type |-> t, val |-> s] : t \in {"string", "[]byte"}, s \in DecodeTexts}
    \cup {[type |-> t, val |-> <<>>] : t \in {"int", "nil", "float64"}}

DecodeInit ==
    /\ pc = "decode"
    /\ DefaultParser = InitDefaultParser
    /\ parser = NoParser
    /\ input = <<>>
    /\ out \in {<<v>> : v \in DecodeReceivers}
    /\ rt = None
    /\ cmp = None
    /\ heap = None
    /\ ranges = <<>>
    /\ last = NoCall
    /\ goroutines = <<>>

\* err := v.UnmarshalText(text)
UnmarshalTextCall ==
    /\ pc = "decode"
    /\ \E text \in DecodeTexts : \E res \in {UnmarshalText(DefaultParser, out[1], text)} :
          /\ out' = <<res.v>>
          /\ last' = [op |-> "UnmarshalText", text |-> text, valid |-> TRUE,
                      err |-> res.err, before |-> out[1]]
    /\ UNCHANGED <<pc, DefaultParser, parser, input, rt, cmp, heap, ranges, goroutines>>

\* err := v.UnmarshalBinary(data)
UnmarshalBinaryCall ==
    /\ pc = "decode"
    /\ \E data \in DecodeTexts : \E res \in {UnmarshalBinary(DefaultParser, out[1], data)} :
          /\ out' = <<res.v>>
          /\ last' = [op |-> "UnmarshalBinary", text |-> data, valid |-> TRUE,
                      err |-> res.err, before |-> out[1]]
    /\ UNCHANGED <<pc, DefaultParser, parser, input, rt, cmp, heap, ranges, goroutines>>

\* err := v.UnmarshalJSON(data)
UnmarshalJSONCall ==
    /\ pc = "decode"
    /\ \E in \in DecodeJSONInputs : \E res \in {UnmarshalJSON(DefaultParser, out[1], in.data)} :
          /\ out' = <<res.v>>
          /\ last' = [op |-> "UnmarshalJSON", text |-> in.text, valid |-> in.valid,
                      err |-> res.err, before |-> out[1]]
    /\ UNCHANGED <<pc, DefaultParser, parser, input, rt, cmp, heap, ranges, goroutines>>

\* err := v.Scan(value)
ScanCall ==
    /\ pc = "decode"
    /\ \E value \in ScanValues : \E res \in {Scan(DefaultParser, out[1], value)} :
          /\ out' = <<res.v>>
          /\ last' = [op |-> "Scan", text |-> value.val,
                      valid |-> value.type \in {"string", "[]byte"},
                      err |-> res.err, before |-> out[1]]
    /\ UNCHANGED <<pc, DefaultParser, parser, input, rt, cmp, heap, ranges, goroutines>>

DecodeNext == UnmarshalTextCall \/ UnmarshalBinaryCall \/ UnmarshalJSONCall \/ ScanCall

DecodeSpec == DecodeInit /\ [][DecodeNext]_vars

====
